---- MODULE Spec2Model ----
(***************************************************************************)
(* A model of relic: the value registry (constructors, per-type instance   *)
(* lists), the tree-walking evaluator and its multiple dispatch with the   *)
(* process-wide dispatch cache.                                            *)
(*                                                                         *)
(* Strings are sequences of one-character strings, so that to_lowercase,   *)
(* contains and len are computed and not assumed.  Runtime values          *)
(* (EvalValue, and the boxed payloads handed to construct) are records of  *)
(* one shape; the tag t says which fields are meaningful.                  *)
(***************************************************************************)
EXTENDS Integers, Sequences, FiniteSets, TLC

(***************************************************************************)
(* Bounds of the model.                                                    *)
(***************************************************************************)
\* the instance lists of all types together hold at most this many entries
MaxInstances == 2
\* an overload set holds at most this many declarations
MaxOverloads == 3
\* the threads that share one registry
NumThreads == 2
\* the width in bits of an integer, standing for the 64 of i64
IntBits == 4

(***************************************************************************)
(* State.                                                                  *)
(***************************************************************************)
VARIABLES
    constructors,   \* ValueRegistry.constructors: the names registered
    instances,      \* ValueRegistry.instances: type name -> list of instances
    result,         \* what the last registry operation returned
    okCount,        \* history: type name -> number of construct calls that returned Ok
    functions,      \* ValueRegistry.functions: name -> list of declarations
    cache,          \* DISPATCH_CACHE: (name, signatures) -> index into the list
    dres,           \* what the last function call did and returned
    env,            \* TypeEnvironment.functions of the type checker
    declared,       \* what the last declaration was and how it ended
    threads,        \* thread -> where it stands in construct or get_all_instances
    lock,           \* the RwLock of instances: its writer (0: none), its readers
    acquired,       \* history: type name -> instances in writer-lock order
    lastRead,       \* history: type name -> the list last returned to a reader
    build,          \* the build profile: "debug" (overflow checks) or "release"
    evres,          \* what the last evaluated expression was and returned
    parsed,         \* what the last parsed declaration was and the parser's result
    pexpr,          \* what the last parsed expression was and the parser's result
    emails,         \* slot -> the EmailAddress built there, its raw string, its observed hashes
    lexer,          \* the Lexer under test: its input, its position and the last next_token
    repl,           \* the Repl's TypeChecker (value types, locals) and its last input
    specializations,\* the Compiler's SpecializationCache
    opt,            \* the last optimized evaluation, with the plain one of the same state
    registries      \* two registries of one process, and the last call dispatched

registryVars == <<instances, result, okCount>>
dispatchVars == <<functions, cache, dres>>
checkerVars == <<env, declared>>
threadVars == <<threads, lock, acquired, lastRead>>
vars ==
    <<constructors, instances, result, okCount, functions, cache, dres, env,
      declared, threads, lock, acquired, lastRead, build, evres, parsed,
      pexpr,
      emails,
      lexer,
      repl,
      specializations,
      opt,
      registries>>

(***************************************************************************)
(* Runtime values: evaluator.rs EvalValue.                                 *)
(***************************************************************************)
Blank ==
    [t |-> "", s |-> <<>>, n |-> 0, b |-> FALSE, ty |-> "", f |-> "", fname |-> "",
     msg |-> "", items |-> <<>>]

StringV(str) == [Blank EXCEPT !.t = "String", !.s = str]
IntegerV(num) == [Blank EXCEPT !.t = "Integer", !.n = num]
BooleanV(bool) == [Blank EXCEPT !.t = "Boolean", !.b = bool]
\* EvalValue::Type(type_name)
TypeV(type_name) == [Blank EXCEPT !.t = "Type", !.ty = type_name]
\* EvalValue::Value { type_name, fields }: fields holds one entry, the
\* constructor's parameter name (fname) mapped to the argument, kept
\* flattened: f is the tag of the field's value and s, n, b hold it.
ValueV(type_name, param_name, payload) ==
    [payload EXCEPT !.t = "Value", !.ty = type_name, !.f = payload.t,
                    !.fname = param_name]
\* the field of a Value as a value again
FieldOf(v) == [Blank EXCEPT !.t = v.f, !.s = v.s, !.n = v.n, !.b = v.b]
\* Err(Error::Validation(ValidationError { message, value_type }))
ErrV(message, value_type) ==
    [Blank EXCEPT !.t = "Err", !.msg = message, !.ty = value_type]
IsErr(v) == v.t = "Err"

(***************************************************************************)
(* Strings.                                                                *)
(***************************************************************************)
\* char::to_lowercase on the characters the model uses
LowerChar(c) ==
    CASE c = "A" -> "a"
      [] c = "B" -> "b"
      [] c = "X" -> "x"
      [] OTHER -> c

\* char::to_uppercase on the characters the model uses
UpperChar(c) ==
    CASE c = "a" -> "A"
      [] c = "b" -> "B"
      [] c = "c" -> "C"
      [] c = "x" -> "X"
      [] OTHER -> c

\* str::to_uppercase
to_uppercase(str) == [i \in 1..Len(str) |-> UpperChar(str[i])]

\* str::to_lowercase
to_lowercase(str) == [i \in 1..Len(str) |-> LowerChar(str[i])]

\* str::contains(&str): pat occurs in str as a substring
contains(str, pat) ==
    \E i \in 0..(Len(str) - Len(pat)) : SubSeq(str, i + 1, i + Len(pat)) = pat

(***************************************************************************)
(* Expressions: ast.rs Expression.  k is the variant.                      *)
(***************************************************************************)
NoExpr == [k |-> "None"]
LitS(str) == [k |-> "Literal", v |-> StringV(str)]
LitI(num) == [k |-> "Literal", v |-> IntegerV(num)]
LitB(bool) == [k |-> "Literal", v |-> BooleanV(bool)]
Identifier(name) == [k |-> "Identifier", name |-> name]
Binary(op, left, right) == [k |-> "Binary", op |-> op, left |-> left, right |-> right]
Unary(op, e) == [k |-> "Unary", op |-> op, e |-> e]
Comparison(op, left, right) ==
    [k |-> "Comparison", op |-> op, left |-> left, right |-> right]
MemberAccess(obj, member) == [k |-> "MemberAccess", obj |-> obj, member |-> member]
MethodCall(obj, method, args) ==
    [k |-> "MethodCall", obj |-> obj, method |-> method, args |-> args]
FunctionCall(name, args) == [k |-> "FunctionCall", name |-> name, args |-> args]
Pipeline(left, right) == [k |-> "Pipeline", left |-> left, right |-> right]
Let(name, value, body) == [k |-> "Let", name |-> name, value |-> value, body |-> body]
Match(e, arms) == [k |-> "Match", e |-> e, arms |-> arms]
\* MatchArm { pattern: Pattern::Constructor(constructor, binding), body }
MatchArm(constructor, binding, body) ==
    [constructor |-> constructor, binding |-> binding, body |-> body]
TypeLiteral(name) == [k |-> "TypeLiteral", name |-> name]
\* Expression::Literal holding the literal of a primitive value
Literal(v) == [k |-> "Literal", v |-> v]

\* a HashMap<String, EvalValue> context: a function on the bound names
EmptyContext == [x \in {} |-> Blank]
Bind(name, v) == [x \in {name} |-> v]
\* context.clone() followed by insert(name, v)
Insert(context, name, v) ==
    [x \in DOMAIN context \cup {name} |-> IF x = name THEN v ELSE context[x]]

\* the two build profiles: overflow checks on (a panic on overflow) or off
\* (two's complement wrapping)
Builds == {"debug", "release"}

RECURSIVE Pow2(_)
Pow2(bits) == IF bits = 0 THEN 1 ELSE 2 * Pow2(bits - 1)

\* i64::MIN and i64::MAX at the width of the model
IntMin == -Pow2(IntBits - 1)
IntMax == Pow2(IntBits - 1) - 1
Wrap(num) == ((num - IntMin) % Pow2(IntBits)) + IntMin

\* a panic of the evaluating thread: not a Result at all
PanicV(message) == [Blank EXCEPT !.t = "Panic", !.msg = message]
\* the evaluation of an operand did not produce a value
Aborts(v) == v.t \in {"Err", "Panic"}

\* the result of +, -, * and unary - on i64 from the mathematical result
Overflowing(num, message) ==
    IF IntMin <= num /\ num <= IntMax THEN IntegerV(num)
    ELSE IF build = "debug" THEN PanicV(message)
    ELSE IntegerV(Wrap(num))

\* Rust's / and %: truncation towards zero
Abs(num) == IF num < 0 THEN -num ELSE num
TruncDiv(l, r) ==
    IF (l < 0) = (r < 0) THEN Abs(l) \div Abs(r) ELSE -(Abs(l) \div Abs(r))
TruncRem(l, r) == l - r * TruncDiv(l, r)

\* evaluator.rs evaluate_expression, Binary, on the evaluated operands.  l / r
\* and l % r panic in every build when l is i64::MIN and r is -1.
EvalBinary(op, l, r) ==
    CASE l.t = "Integer" /\ r.t = "Integer" /\ op = "Add" ->
            Overflowing(l.n + r.n, "attempt to add with overflow")
      [] l.t = "Integer" /\ r.t = "Integer" /\ op = "Subtract" ->
            Overflowing(l.n - r.n, "attempt to subtract with overflow")
      [] l.t = "Integer" /\ r.t = "Integer" /\ op = "Multiply" ->
            Overflowing(l.n * r.n, "attempt to multiply with overflow")
      [] l.t = "Integer" /\ r.t = "Integer" /\ op = "Divide" ->
            IF r.n = 0 THEN ErrV("Division by zero", "")
            ELSE IF l.n = IntMin /\ r.n = -1
            THEN PanicV("attempt to divide with overflow")
            ELSE IntegerV(TruncDiv(l.n, r.n))
      [] l.t = "Integer" /\ r.t = "Integer" /\ op = "Modulo" ->
            IF r.n = 0 THEN ErrV("Modulo by zero", "")
            ELSE IF l.n = IntMin /\ r.n = -1
            THEN PanicV("attempt to calculate the remainder with overflow")
            ELSE IntegerV(TruncRem(l.n, r.n))
      [] l.t = "Boolean" /\ r.t = "Boolean" /\ op = "And" -> BooleanV(l.b /\ r.b)
      [] l.t = "Boolean" /\ r.t = "Boolean" /\ op = "Or" -> BooleanV(l.b \/ r.b)
      [] OTHER -> ErrV("Type mismatch in binary operation", "")

\* evaluator.rs evaluate_expression, Unary
EvalUnary(op, v) ==
    CASE op = "Not" /\ v.t = "Boolean" -> BooleanV(~v.b)
      [] op = "Minus" /\ v.t = "Integer" ->
            Overflowing(-v.n, "attempt to negate with overflow")
      [] OTHER -> ErrV("Type mismatch in unary operation", "")

\* evaluator.rs evaluate_expression, Comparison
EvalComparison(op, l, r) ==
    CASE l.t = "Integer" /\ r.t = "Integer" /\ op = "Equal" -> BooleanV(l.n = r.n)
      [] l.t = "Integer" /\ r.t = "Integer" /\ op = "NotEqual" -> BooleanV(l.n # r.n)
      [] l.t = "Integer" /\ r.t = "Integer" /\ op = "Less" -> BooleanV(l.n < r.n)
      [] l.t = "Integer" /\ r.t = "Integer" /\ op = "Greater" -> BooleanV(l.n > r.n)
      [] l.t = "Integer" /\ r.t = "Integer" /\ op = "LessEqual" -> BooleanV(l.n <= r.n)
      [] l.t = "Integer" /\ r.t = "Integer" /\ op = "GreaterEqual" -> BooleanV(l.n >= r.n)
      [] l.t = "String" /\ r.t = "String" /\ op = "Equal" -> BooleanV(l.s = r.s)
      [] l.t = "String" /\ r.t = "String" /\ op = "NotEqual" -> BooleanV(l.s # r.s)
      [] l.t = "String" /\ r.t = "String" /\ op = "Contains" -> BooleanV(contains(l.s, r.s))
      [] l.t = "Boolean" /\ r.t = "Boolean" /\ op = "Equal" -> BooleanV(l.b = r.b)
      [] l.t = "Boolean" /\ r.t = "Boolean" /\ op = "NotEqual" -> BooleanV(l.b # r.b)
      [] OTHER -> ErrV("Type mismatch in comparison", "")

\* evaluator.rs evaluate_expression, MemberAccess, on the evaluated object
EvalMember(v, member) ==
    CASE v.t = "String" ->
            IF member = "length" THEN IntegerV(Len(v.s))
            ELSE ErrV("String has no member", "String")
      [] v.t = "Value" ->
            IF member = v.fname THEN FieldOf(v)
            ELSE ErrV("Value type has no member", v.ty)
      [] OTHER -> ErrV("Cannot access member on primitive value", "")

\* evaluator.rs evaluate_expression on the expression forms of the model's
\* catalogue (literals, identifiers, binary, unary, comparison, member
\* access, let, match, type literals); constructors is the registry's set of
\* constructor names.  Calls are evaluated by the operators further down.
RECURSIVE evaluate_expression(_, _, _)
evaluate_expression(expr, context, ctors) ==
    CASE expr.k = "Literal" -> expr.v
      [] expr.k = "Identifier" ->
            IF expr.name \in DOMAIN context THEN context[expr.name]
            ELSE IF expr.name \in ctors THEN TypeV(expr.name)
            ELSE ErrV("Unknown identifier", "")
      [] expr.k = "Binary" ->
            LET l == evaluate_expression(expr.left, context, ctors)
            IN  IF Aborts(l) THEN l
                ELSE LET r == evaluate_expression(expr.right, context, ctors)
                     IN  IF Aborts(r) THEN r ELSE EvalBinary(expr.op, l, r)
      [] expr.k = "Unary" ->
            LET v == evaluate_expression(expr.e, context, ctors)
            IN  IF Aborts(v) THEN v ELSE EvalUnary(expr.op, v)
      [] expr.k = "Comparison" ->
            LET l == evaluate_expression(expr.left, context, ctors)
            IN  IF Aborts(l) THEN l
                ELSE LET r == evaluate_expression(expr.right, context, ctors)
                     IN  IF Aborts(r) THEN r ELSE EvalComparison(expr.op, l, r)
      [] expr.k = "MemberAccess" ->
            LET v == evaluate_expression(expr.obj, context, ctors)
            IN  IF Aborts(v) THEN v ELSE EvalMember(v, expr.member)
      [] expr.k = "Let" ->
            LET bound_value == evaluate_expression(expr.value, context, ctors)
            IN  IF Aborts(bound_value) THEN bound_value
                ELSE evaluate_expression(expr.body,
                                         Insert(context, expr.name, bound_value),
                                         ctors)
      [] expr.k = "Match" ->
            LET val == evaluate_expression(expr.e, context, ctors)
            IN  IF Aborts(val) THEN val
                ELSE IF expr.arms # <<>>
                THEN evaluate_expression(expr.arms[1].body,
                                         Insert(context, expr.arms[1].binding, val),
                                         ctors)
                ELSE ErrV("No match arms", "")
      [] expr.k = "TypeLiteral" -> TypeV(expr.name)
      [] OTHER -> ErrV("unsupported expression", "")

(***************************************************************************)
(* Types: types.rs Type (with the Type and List cases evaluator.rs uses).  *)
(***************************************************************************)
TString == [k |-> "String", name |-> ""]
TInt == [k |-> "Int", name |-> ""]
TBool == [k |-> "Bool", name |-> ""]
TAny == [k |-> "Any", name |-> ""]
TUnknown == [k |-> "Unknown", name |-> ""]
TType == [k |-> "Type", name |-> ""]
TList == [k |-> "List", name |-> ""]
TValue(type_name) == [k |-> "Value", name |-> type_name]

(***************************************************************************)
(* The value declarations of the modelled program:                         *)
(*   value E(raw: String) { validate: raw contains "@" && raw.length > 3   *)
(*                          normalize: raw.toLowerCase() }                 *)
(*   value C(n: Int)      { validate: n > 0 }                              *)
(*   value U(n: Int)      { unique: true }                                 *)
(*   value B(flag: Bool)  { validate: flag }                               *)
(* and, for the dispatch machine, a value type whose name is that of a     *)
(* primitive type (parse_type never reads a declaration's own name):       *)
(*   value Int(n: Int) { }                                                 *)
(* unique is Option<bool>: FALSE stands for None.                          *)
(***************************************************************************)
ValueNames == {"E", "C", "U", "B"}
\* a name no declaration defines
UnknownName == "X"
TypeNames == ValueNames \cup {UnknownName}

ValueDecl(name) ==
    CASE name = "E" ->
            [name |-> "E", parameter |-> [name |-> "raw", ty |-> TString],
             body |-> [validate |->
                           Binary("And",
                                  Comparison("Contains", Identifier("raw"),
                                             LitS(<<"@">>)),
                                  Comparison("Greater",
                                             MemberAccess(Identifier("raw"), "length"),
                                             LitI(3))),
                       normalize |-> MethodCall(Identifier("raw"), "toLowerCase", <<>>),
                       unique |-> FALSE]]
      [] name = "C" ->
            [name |-> "C", parameter |-> [name |-> "n", ty |-> TInt],
             body |-> [validate |-> Comparison("Greater", Identifier("n"), LitI(0)),
                       normalize |-> NoExpr, unique |-> FALSE]]
      [] name = "U" ->
            [name |-> "U", parameter |-> [name |-> "n", ty |-> TInt],
             body |-> [validate |-> NoExpr, normalize |-> NoExpr, unique |-> TRUE]]
      [] name = "B" ->
            [name |-> "B", parameter |-> [name |-> "flag", ty |-> TBool],
             body |-> [validate |-> Identifier("flag"), normalize |-> NoExpr,
                       unique |-> FALSE]]
      [] name = "Int" ->
            [name |-> "Int", parameter |-> [name |-> "n", ty |-> TInt],
             body |-> [validate |-> NoExpr, normalize |-> NoExpr, unique |-> FALSE]]

\* the payloads handed to construct: a Box<dyn Any> holding a String, an i64
\* or a bool
Payloads ==
    {StringV(<<"A", "b", "@", "x">>), StringV(<<"n", "o", "p", "e">>),
     IntegerV(0), IntegerV(5), BooleanV(FALSE)}

(***************************************************************************)
(* compiler.rs: the validator closure of a value declaration.  A           *)
(* Result<bool> is BooleanV(_) or ErrV(_, _); a Result<()> is OkUnit or    *)
(* ErrV(_, _).  The catalogue has no Pipeline, Let or Match expression, so *)
(* those arms of the two validation functions are left out and the context *)
(* (the let-bindings) is always empty.                                     *)
(***************************************************************************)
OkUnit == [Blank EXCEPT !.t = "Ok"]

\* compiler.rs evaluate_string_expr
evaluate_string_expr(expr, param_value, param_name, context) ==
    CASE expr.k = "Literal" /\ expr.v.t = "String" -> expr.v
      [] expr.k = "Identifier" ->
            IF expr.name = param_name THEN StringV(param_value)
            ELSE IF expr.name \in DOMAIN context /\ context[expr.name].t = "String"
                 THEN context[expr.name]
            ELSE ErrV("Cannot evaluate as string", "")
      [] expr.k = "MethodCall" ->
            IF expr.obj.k = "Identifier"
            THEN IF expr.obj.name = param_name /\ expr.method = "toLowerCase"
                 THEN StringV(to_lowercase(param_value))
                 ELSE IF expr.obj.name \in DOMAIN context
                         /\ context[expr.obj.name].t = "String"
                      THEN IF expr.method = "toLowerCase"
                           THEN StringV(to_lowercase(context[expr.obj.name].s))
                           ELSE context[expr.obj.name]
                      ELSE ErrV("Cannot call method", "")
            ELSE ErrV("Complex method calls not yet supported", "")
      [] OTHER -> ErrV("Cannot evaluate expression as string", "")

\* compiler.rs evaluate_string_validation_with_context, Comparison(Greater):
\* the left side is param.length (or a let-bound name), the right side an
\* integer literal (or a let-bound integer); anything else is "false"
StringGreater(value, expr, param_name, context) ==
    LET left == expr.left
        right == expr.right
        leftKnown ==
            CASE left.k = "MemberAccess" /\ left.obj.k = "Identifier" ->
                    IF left.obj.name = param_name /\ left.member = "length" THEN TRUE
                    ELSE IF left.obj.name \in DOMAIN context
                         THEN LET val == context[left.obj.name]
                              IN  (val.t = "String" /\ left.member = "length")
                                  \/ val.t = "Integer"
                         ELSE FALSE
              [] left.k = "Identifier" ->
                    left.name \in DOMAIN context /\ context[left.name].t = "Integer"
              [] OTHER -> FALSE
        left_val ==
            CASE left.k = "MemberAccess" ->
                    IF left.obj.name = param_name /\ left.member = "length"
                    THEN Len(value)
                    ELSE LET val == context[left.obj.name]
                         IN  IF val.t = "String" THEN Len(val.s) ELSE val.n
              [] OTHER -> context[left.name].n
    IN  IF ~leftKnown THEN BooleanV(FALSE)
        ELSE IF right.k = "Literal" /\ right.v.t = "Integer"
             THEN BooleanV(left_val > right.v.n)
        ELSE IF right.k = "Identifier" /\ right.name \in DOMAIN context
                /\ context[right.name].t = "Integer"
             THEN BooleanV(left_val > context[right.name].n)
        ELSE BooleanV(FALSE)

\* compiler.rs evaluate_string_validation_with_context, Comparison(Contains)
StringContains(value, expr, param_name, context) ==
    LET left == expr.left
        right == expr.right
        leftKnown ==
            left.k = "Identifier"
            /\ (left.name = param_name
                \/ (left.name \in DOMAIN context /\ context[left.name].t = "String"))
        left_str == IF left.name = param_name THEN value ELSE context[left.name].s
    IN  IF ~leftKnown THEN BooleanV(FALSE)
        ELSE IF right.k = "Literal" /\ right.v.t = "String"
             THEN BooleanV(contains(left_str, right.v.s))
        ELSE BooleanV(FALSE)

RECURSIVE evaluate_string_validation_with_context(_, _, _, _)
evaluate_string_validation_with_context(value, expr, param_name, context) ==
    CASE expr.k = "Binary" /\ expr.op = "And" ->
            \* Ok(left? && right?): the right side runs only after a true left
            LET l == evaluate_string_validation_with_context(value, expr.left,
                                                             param_name, context)
            IN  IF IsErr(l) THEN l
                ELSE IF ~l.b THEN BooleanV(FALSE)
                ELSE evaluate_string_validation_with_context(value, expr.right,
                                                             param_name, context)
      [] expr.k = "Binary" /\ expr.op = "Or" ->
            LET l == evaluate_string_validation_with_context(value, expr.left,
                                                             param_name, context)
            IN  IF IsErr(l) THEN l
                ELSE IF l.b THEN BooleanV(TRUE)
                ELSE evaluate_string_validation_with_context(value, expr.right,
                                                             param_name, context)
      [] expr.k = "Comparison" /\ expr.op = "Contains" ->
            StringContains(value, expr, param_name, context)
      [] expr.k = "Comparison" /\ expr.op \in {"Equal", "NotEqual"} ->
            LET l == evaluate_string_expr(expr.left, value, param_name, context)
            IN  IF IsErr(l) THEN l
                ELSE LET r == evaluate_string_expr(expr.right, value, param_name,
                                                   context)
                     IN  IF IsErr(r) THEN r
                         ELSE BooleanV((l.s = r.s) = (expr.op = "Equal"))
      [] expr.k = "Comparison" /\ expr.op = "Greater" ->
            StringGreater(value, expr, param_name, context)
      [] OTHER -> BooleanV(TRUE)

\* compiler.rs evaluate_string_validation
evaluate_string_validation(value, expr, param_name) ==
    evaluate_string_validation_with_context(value, expr, param_name, EmptyContext)

\* compiler.rs evaluate_int_expr
evaluate_int_expr(expr, param_value, param_name, context) ==
    CASE expr.k = "Literal" /\ expr.v.t = "Integer" -> expr.v
      [] expr.k = "Identifier" ->
            IF expr.name = param_name THEN IntegerV(param_value)
            ELSE IF expr.name \in DOMAIN context /\ context[expr.name].t = "Integer"
                 THEN context[expr.name]
            ELSE ErrV("Cannot evaluate as integer", "")
      [] expr.k = "MemberAccess" ->
            IF expr.obj.k = "Identifier"
            THEN IF expr.obj.name = param_name /\ expr.member = "length"
                 THEN IntegerV(0)
                 ELSE IF expr.obj.name \in DOMAIN context
                      THEN IF context[expr.obj.name].t = "String"
                              /\ expr.member = "length"
                           THEN IntegerV(Len(context[expr.obj.name].s))
                           ELSE ErrV("Cannot access member", "")
                      ELSE ErrV("Unknown identifier", "")
            ELSE ErrV("Complex member access not yet supported", "")
      [] OTHER -> ErrV("Cannot evaluate expression as integer", "")

IntCompare(op, l, r) ==
    CASE op = "Equal" -> l = r
      [] op = "NotEqual" -> l # r
      [] op = "Greater" -> l > r
      [] op = "GreaterEqual" -> l >= r
      [] op = "Less" -> l < r
      [] op = "LessEqual" -> l <= r

RECURSIVE evaluate_int_validation_with_context(_, _, _, _)
evaluate_int_validation_with_context(value, expr, param_name, context) ==
    CASE expr.k = "Binary" /\ expr.op = "And" ->
            LET l == evaluate_int_validation_with_context(value, expr.left,
                                                          param_name, context)
            IN  IF IsErr(l) THEN l
                ELSE IF ~l.b THEN BooleanV(FALSE)
                ELSE evaluate_int_validation_with_context(value, expr.right,
                                                          param_name, context)
      [] expr.k = "Binary" /\ expr.op = "Or" ->
            LET l == evaluate_int_validation_with_context(value, expr.left,
                                                          param_name, context)
            IN  IF IsErr(l) THEN l
                ELSE IF l.b THEN BooleanV(TRUE)
                ELSE evaluate_int_validation_with_context(value, expr.right,
                                                          param_name, context)
      [] expr.k = "Comparison"
         /\ expr.op \in {"Equal", "NotEqual", "Greater", "GreaterEqual", "Less",
                         "LessEqual"} ->
            LET l == evaluate_int_expr(expr.left, value, param_name, context)
            IN  IF IsErr(l) THEN l
                ELSE LET r == evaluate_int_expr(expr.right, value, param_name, context)
                     IN  IF IsErr(r) THEN r
                         ELSE BooleanV(IntCompare(expr.op, l.n, r.n))
      [] OTHER -> BooleanV(TRUE)

\* compiler.rs evaluate_int_validation
evaluate_int_validation(value, expr, param_name) ==
    evaluate_int_validation_with_context(value, expr, param_name, EmptyContext)

\* compiler.rs compile_value_declaration: the validator closure, applied to
\* a boxed input.  A payload that does not downcast to the declared type is
\* let through, and so is every payload of a type other than String and Int.
validator(decl, input) ==
    IF decl.body.validate.k = "None" THEN OkUnit
    ELSE CASE decl.parameter.ty = TString ->
                 IF input.t = "String"
                 THEN LET r == evaluate_string_validation(input.s, decl.body.validate,
                                                          decl.parameter.name)
                      IN  IF IsErr(r) THEN r
                          ELSE IF ~r.b THEN ErrV("Validation failed", decl.name)
                          ELSE OkUnit
                 ELSE OkUnit
           [] decl.parameter.ty = TInt ->
                 IF input.t = "Integer"
                 THEN LET r == evaluate_int_validation(input.n, decl.body.validate,
                                                       decl.parameter.name)
                      IN  IF IsErr(r) THEN r
                          ELSE IF ~r.b THEN ErrV("Validation failed", decl.name)
                          ELSE OkUnit
                 ELSE OkUnit
           [] OTHER -> OkUnit

\* compiler.rs compile_value_declaration: the normalizer closure, present iff
\* the declaration has a normalize expression; it returns Ok(()) and leaves
\* the input as it is.
HasNormalizer(decl) == decl.body.normalize.k # "None"
normalizer(decl, input) == input

(***************************************************************************)
(* The function declarations of the modelled program, all overloads of f:  *)
(*   1: f(x: Int where x > 0) -> Int { 1 }                                 *)
(*   2: f(x: Int) -> Int { 2 }                                             *)
(*   3: f(x: Any) -> Int { 0 }                                             *)
(*   4: f(x: Int, y: Any) -> Int { 5 }                                     *)
(* and, for the declaration machine, a second declaration with the         *)
(* parameter types of 2 and a declaration whose body has the wrong type:   *)
(*   5: f(x: Int) -> Int { 3 }                                             *)
(*   6: f(x: Bool) -> Int { x }                                            *)
(* A parameter is a ParameterWithGuard; guard NoExpr stands for None.      *)
(***************************************************************************)
FunctionNames == {"f"}
DeclIds == 1..4
DeclarableIds == 1..6

FunctionDecl(id) ==
    CASE id = 1 ->
            [name |-> "f",
             parameters |-> <<[name |-> "x", ty |-> TInt,
                               guard |-> Comparison("Greater", Identifier("x"),
                                                    LitI(0))]>>,
             return_type |-> TInt, body |-> LitI(1)]
      [] id = 2 ->
            [name |-> "f",
             parameters |-> <<[name |-> "x", ty |-> TInt, guard |-> NoExpr]>>,
             return_type |-> TInt, body |-> LitI(2)]
      [] id = 3 ->
            [name |-> "f",
             parameters |-> <<[name |-> "x", ty |-> TAny, guard |-> NoExpr]>>,
             return_type |-> TInt, body |-> LitI(0)]
      [] id = 4 ->
            [name |-> "f",
             parameters |-> <<[name |-> "x", ty |-> TInt, guard |-> NoExpr],
                              [name |-> "y", ty |-> TAny, guard |-> NoExpr]>>,
             return_type |-> TInt, body |-> LitI(5)]
      [] id = 5 ->
            [name |-> "f",
             parameters |-> <<[name |-> "x", ty |-> TInt, guard |-> NoExpr]>>,
             return_type |-> TInt, body |-> LitI(3)]
      [] id = 6 ->
            [name |-> "f",
             parameters |-> <<[name |-> "x", ty |-> TBool, guard |-> NoExpr]>>,
             return_type |-> TInt, body |-> Identifier("x")]

\* the argument vectors of the calls: f(3), f(-1), f(true), f(Int(5)) (the
\* Value the evaluator builds for a construction of the value type Int),
\* f(3, 3)
IntInstance == ValueV("Int", "n", IntegerV(5))
ArgVectors ==
    {<<IntegerV(3)>>, <<IntegerV(-1)>>, <<BooleanV(TRUE)>>, <<IntInstance>>,
     <<IntegerV(3), IntegerV(3)>>}

(***************************************************************************)
(* evaluator.rs: multiple dispatch.                                        *)
(***************************************************************************)
\* evaluator.rs matches_type
matches_type(ty, value) ==
    CASE ty.k = "Int" /\ value.t = "Integer" -> TRUE
      [] ty.k = "String" /\ value.t = "String" -> TRUE
      [] ty.k = "Bool" /\ value.t = "Boolean" -> TRUE
      [] ty.k = "Value" /\ value.t = "Value" -> ty.name = value.ty
      [] ty.k = "Type" /\ value.t = "Type" -> TRUE
      [] ty.k = "List" /\ value.t = "List" -> TRUE
      [] ty.k = "Any" -> TRUE
      [] OTHER -> FALSE

\* evaluator.rs get_value_type_signature
get_value_type_signature(value) ==
    CASE value.t = "String" -> "String"
      [] value.t = "Integer" -> "Int"
      [] value.t = "Boolean" -> "Bool"
      [] value.t = "Value" -> value.ty
      [] value.t = "Type" -> "Type"
      [] value.t = "List" -> "List"

\* evaluator.rs create_dispatch_key: DispatchKey { function_name,
\* arg_type_signatures }
create_dispatch_key(name, arg_values) ==
    <<name, [i \in 1..Len(arg_values) |-> get_value_type_signature(arg_values[i])]>>

\* the score of one parameter type in calculate_function_specificity
TypeScore(ty) ==
    CASE ty.k = "Int" -> 3
      [] ty.k = "String" -> 3
      [] ty.k = "Bool" -> 3
      [] ty.k = "Value" -> 3
      [] ty.k = "Type" -> 3
      [] ty.k = "List" -> 3
      [] ty.k = "Any" -> 1
      [] ty.k = "Unknown" -> 0

Min(a, b) == IF a < b THEN a ELSE b

\* faulty variant of calculate_function_specificity: every parameter scores
\* alike, whatever its type and guard
calculate_function_specificity_flat(func, arg_values) ==
    3 * Min(Len(func.parameters), Len(arg_values))

\* evaluator.rs calculate_function_specificity: the sum over
\* func.parameters.iter().zip(arg_values)
RECURSIVE SpecificityFrom(_, _, _)
SpecificityFrom(func, count, i) ==
    IF i > count THEN 0
    ELSE TypeScore(func.parameters[i].ty)
         + (IF func.parameters[i].guard.k # "None" THEN 2 ELSE 0)
         + SpecificityFrom(func, count, i + 1)

calculate_function_specificity(func, arg_values) ==
    SpecificityFrom(func, Min(Len(func.parameters), Len(arg_values)), 1)

\* the context a call binds: func.parameters.iter().zip(arg_values.iter()),
\* each parameter name inserted with its argument (a later parameter of the
\* same name replaces an earlier one)
ParamContext(func, arg_values) ==
    LET count == Min(Len(func.parameters), Len(arg_values))
        names == {func.parameters[i].name : i \in 1..count}
    IN  [nm \in names |->
            arg_values[CHOOSE i \in 1..count :
                          /\ func.parameters[i].name = nm
                          /\ \A j \in 1..count :
                                func.parameters[j].name = nm => j <= i]]

\* evaluator.rs dispatch_function: all parameters match the arguments
AllMatch(func, arg_values) ==
    \A i \in 1..Min(Len(func.parameters), Len(arg_values)) :
        matches_type(func.parameters[i].ty, arg_values[i])

\* evaluator.rs dispatch_function: every guard evaluates to Ok(Boolean(true))
\* in the context of the parameters; an error counts as false
guards_satisfied(func, arg_values, ctors) ==
    \A i \in 1..Len(func.parameters) :
        func.parameters[i].guard.k # "None" =>
            evaluate_expression(func.parameters[i].guard,
                                ParamContext(func, arg_values), ctors)
                = BooleanV(TRUE)

\* evaluator.rs dispatch_function: whether the function at index (0-based)
\* becomes a candidate
IsCandidate(funcs, index, arg_values, ctors) ==
    LET func == FunctionDecl(funcs[index + 1])
    IN  /\ Len(func.parameters) = Len(arg_values)
        /\ AllMatch(func, arg_values)
        /\ guards_satisfied(func, arg_values, ctors)

\* the candidates in the order of the function list, each (index, specificity)
RECURSIVE CandidatesFrom(_, _, _, _)
CandidatesFrom(funcs, index, arg_values, ctors) ==
    IF index >= Len(funcs) THEN <<>>
    ELSE (IF IsCandidate(funcs, index, arg_values, ctors)
          THEN <<[index |-> index,
                  specificity |->
                      calculate_function_specificity(FunctionDecl(funcs[index + 1]),
                                                     arg_values)]>>
          ELSE <<>>)
         \o CandidatesFrom(funcs, index + 1, arg_values, ctors)

\* candidates.sort_by(|a, b| b.2.cmp(&a.2)): a stable sort, highest
\* specificity first
RECURSIVE InsertSorted(_, _)
InsertSorted(sorted, c) ==
    IF sorted = <<>> THEN <<c>>
    ELSE IF Head(sorted).specificity >= c.specificity
         THEN <<Head(sorted)>> \o InsertSorted(Tail(sorted), c)
         ELSE <<c>> \o sorted

RECURSIVE SortBySpecificity(_, _)
SortBySpecificity(cands, count) ==
    IF count = 0 THEN <<>>
    ELSE InsertSorted(SortBySpecificity(cands, count - 1), cands[count])

EmptyCache == [key \in {} |-> 0]
CacheInsert(c, key, index) ==
    [k \in DOMAIN c \cup {key} |-> IF k = key THEN index ELSE c[k]]

\* the body of the function at index, evaluated with the parameters bound
RunBody(funcs, index, arg_values, ctors) ==
    LET func == FunctionDecl(funcs[index + 1])
    IN  evaluate_expression(func.body, ParamContext(func, arg_values), ctors)

\* evaluator.rs dispatch_function, after a cache miss: the candidate filter,
\* the sort, the ambiguity check, the cache insert and the call
full_dispatch(name, funcs, arg_values, c, ctors) ==
    LET unsorted == CandidatesFrom(funcs, 0, arg_values, ctors)
        candidates == SortBySpecificity(unsorted, Len(unsorted))
    IN  IF Len(candidates) >= 2
           /\ candidates[1].specificity = candidates[2].specificity
        THEN [res |-> ErrV("Ambiguous function call", "function"), index |-> -1,
              path |-> "full", cache |-> c]
        ELSE IF Len(candidates) >= 1
        THEN [res |-> RunBody(funcs, candidates[1].index, arg_values, ctors),
              index |-> candidates[1].index, path |-> "full",
              cache |-> CacheInsert(c, create_dispatch_key(name, arg_values),
                                    candidates[1].index)]
        ELSE [res |-> ErrV("No matching function", "function"), index |-> -1,
              path |-> "full", cache |-> c]

\* evaluator.rs dispatch_function: a cached index inside the function list is
\* called at once, without the filter and without the guards
dispatch_function(name, funcs, arg_values, c, ctors) ==
    LET cache_key == create_dispatch_key(name, arg_values)
    IN  IF cache_key \in DOMAIN c /\ c[cache_key] < Len(funcs)
        THEN [res |-> RunBody(funcs, c[cache_key], arg_values, ctors),
              index |-> c[cache_key], path |-> "cache", cache |-> c]
        ELSE full_dispatch(name, funcs, arg_values, c, ctors)

\* evaluator.rs evaluate_expression, FunctionCall, on evaluated arguments: a
\* constructor name constructs (not a call of the dispatch machine), one
\* function is called directly after the arity check, several are dispatched
call_function(name, fns, arg_values, c, ctors) ==
    IF name \notin DOMAIN fns \/ fns[name] = <<>>
    THEN [res |-> ErrV("Unknown function or method", "function"), index |-> -1,
          path |-> "none", cache |-> c]
    ELSE IF Len(fns[name]) = 1
    THEN IF Len(arg_values) # Len(FunctionDecl(fns[name][1]).parameters)
         THEN [res |-> ErrV("Function expects arguments", "function"), index |-> -1,
               path |-> "single", cache |-> c]
         ELSE [res |-> RunBody(fns[name], 0, arg_values, ctors), index |-> 0,
               path |-> "single", cache |-> c]
    ELSE dispatch_function(name, fns[name], arg_values, c, ctors)

NoCall ==
    [name |-> "", args |-> <<>>, overloads |-> <<>>, res |-> Blank, index |-> -1,
     path |-> "none"]

(***************************************************************************)
(* typechecker.rs: the type of an expression is a Type, or a TypeError     *)
(* (k = "TypeError").  locals maps the names in scope to their types.      *)
(***************************************************************************)
TypeErr(message) == [k |-> "TypeError", name |-> message]
IsTypeErr(ty) == ty.k = "TypeError"

\* typechecker.rs check_expression on the expression forms of the model's
\* function declarations
RECURSIVE check_expression(_, _)
check_expression(expr, locals) ==
    CASE expr.k = "Literal" ->
            (CASE expr.v.t = "String" -> TString
               [] expr.v.t = "Integer" -> TInt
               [] expr.v.t = "Boolean" -> TBool)
      [] expr.k = "Identifier" ->
            IF expr.name \in DOMAIN locals THEN locals[expr.name]
            ELSE TypeErr("Undefined identifier")
      [] expr.k = "Binary" ->
            LET left_type == check_expression(expr.left, locals)
            IN  IF IsTypeErr(left_type) THEN left_type
                ELSE LET right_type == check_expression(expr.right, locals)
                     IN  IF IsTypeErr(right_type) THEN right_type
                         ELSE IF expr.op \in {"And", "Or"}
                         THEN IF left_type # TBool \/ right_type # TBool
                              THEN TypeErr("Logical operators require Bool operands")
                              ELSE TBool
                         ELSE IF left_type # TInt \/ right_type # TInt
                              THEN TypeErr("Arithmetic operators require Int operands")
                              ELSE TInt
      [] expr.k = "Unary" ->
            LET operand_type == check_expression(expr.e, locals)
            IN  IF IsTypeErr(operand_type) THEN operand_type
                ELSE IF expr.op = "Not"
                THEN IF operand_type # TBool
                     THEN TypeErr("Not operator requires Bool operand")
                     ELSE TBool
                ELSE IF operand_type # TInt
                     THEN TypeErr("Unary minus requires Int operand")
                     ELSE TInt
      [] expr.k = "Comparison" ->
            LET left_type == check_expression(expr.left, locals)
            IN  IF IsTypeErr(left_type) THEN left_type
                ELSE LET right_type == check_expression(expr.right, locals)
                     IN  IF IsTypeErr(right_type) THEN right_type
                         ELSE IF expr.op = "Contains"
                         THEN IF left_type # TString \/ right_type # TString
                              THEN TypeErr("Contains operator requires String operands")
                              ELSE TBool
                         ELSE IF left_type # right_type
                              THEN TypeErr("Comparison requires matching types")
                              ELSE TBool
      [] expr.k = "MemberAccess" ->
            LET object_type == check_expression(expr.obj, locals)
            IN  IF IsTypeErr(object_type) THEN object_type
                ELSE IF object_type = TString /\ expr.member = "length" THEN TInt
                ELSE TypeErr("Type has no member")
      [] OTHER -> TypeErr("unsupported expression")

\* TypeEnvironment.functions: name -> list of FunctionType
EmptyEnv == [nm \in FunctionNames |-> <<>>]

\* types.rs define_function
define_function(tenv, name, parameter_types, return_type) ==
    [tenv EXCEPT ![name] =
        Append(@, [name |-> name, parameter_types |-> parameter_types,
                   return_type |-> return_type])]

\* the locals of a declaration: each parameter name with its type (a later
\* parameter of the same name replaces an earlier one)
ParamLocals(decl) ==
    [nm \in {decl.parameters[i].name : i \in 1..Len(decl.parameters)} |->
        decl.parameters[CHOOSE i \in 1..Len(decl.parameters) :
                           /\ decl.parameters[i].name = nm
                           /\ \A j \in 1..Len(decl.parameters) :
                                 decl.parameters[j].name = nm => j <= i].ty]

\* the first guard, in parameter order, that does not check to Bool: its
\* error, or its type; TBool when every guard is a Bool
RECURSIVE GuardCheckFrom(_, _)
GuardCheckFrom(decl, i) ==
    IF i > Len(decl.parameters) THEN TBool
    ELSE IF decl.parameters[i].guard.k = "None" THEN GuardCheckFrom(decl, i + 1)
    ELSE LET guard_type == check_expression(decl.parameters[i].guard,
                                            ParamLocals(decl))
         IN  IF IsTypeErr(guard_type) THEN guard_type
             ELSE IF guard_type # TBool
             THEN TypeErr("Function guard must return Bool")
             ELSE GuardCheckFrom(decl, i + 1)

\* typechecker.rs check_function_declaration: the guards are checked, then
\* the body against the return type, then the function is defined in the
\* environment.  Returns the Result (TBool stands for Ok) and the
\* environment after the call.
check_function_declaration(tenv, decl) ==
    LET guards == GuardCheckFrom(decl, 1)
        body_type == check_expression(decl.body, ParamLocals(decl))
    IN  IF IsTypeErr(guards) THEN [res |-> guards, env |-> tenv]
        ELSE IF IsTypeErr(body_type) THEN [res |-> body_type, env |-> tenv]
        ELSE IF body_type # decl.return_type
        THEN [res |-> TypeErr("Function body returns another type"), env |-> tenv]
        ELSE [res |-> TBool,
              env |-> define_function(
                          tenv, decl.name,
                          [i \in 1..Len(decl.parameters) |-> decl.parameters[i].ty],
                          decl.return_type)]

NoDeclaration == [id |-> 0, res |-> "none"]

NoEvaluation ==
    [op |-> "none", name |-> "", form |-> "", e |-> NoExpr, v |-> Blank,
     w |-> Blank, arms |-> <<>>, res |-> Blank]

(***************************************************************************)
(* parser.rs: the declaration parser over the tokens of the lexer.  The    *)
(* tokens of one expression are one token of the model, holding the        *)
(* expression parse_expression returns for them.                           *)
(***************************************************************************)
Tok(t) == [t |-> t, name |-> "", e |-> NoExpr]
IdentTok(name) == [t |-> "Identifier", name |-> name, e |-> NoExpr]
ExprTok(e) == [t |-> "Expression", name |-> "", e |-> e]

\* self.current_token at a position: Eof after the last token
Current(tokens, pos) == IF pos <= Len(tokens) THEN tokens[pos] ELSE Tok("Eof")

\* parser.rs parse_type
parse_type(tokens, pos) ==
    LET tok == Current(tokens, pos)
    IN  IF tok.t = "Identifier"
        THEN [ok |-> TRUE, pos |-> pos + 1,
              ty |-> CASE tok.name = "String" -> TString
                       [] tok.name = "Int" -> TInt
                       [] tok.name = "Bool" -> TBool
                       [] tok.name = "Any" -> TAny
                       [] OTHER -> TValue(tok.name)]
        ELSE [ok |-> FALSE, pos |-> pos, ty |-> TUnknown]

\* ast.rs ParameterWithGuard
ParameterWithGuard(name, ty, guard) == [name |-> name, ty |-> ty, guard |-> guard]

\* parser.rs parse_parameter_with_guard: name ':' type, then 'where' and an
\* expression if the next token is 'where'
parse_parameter_with_guard(tokens, pos) ==
    LET failed == [ok |-> FALSE, pos |-> pos,
                   param |-> ParameterWithGuard("", TUnknown, NoExpr)]
        ty == parse_type(tokens, pos + 2)
    IN  IF Current(tokens, pos).t # "Identifier" THEN failed
        ELSE IF Current(tokens, pos + 1).t # "Colon" THEN failed
        ELSE IF ~ty.ok THEN failed
        ELSE IF Current(tokens, ty.pos).t = "Where"
        THEN IF Current(tokens, ty.pos + 1).t = "Expression"
             THEN [ok |-> TRUE, pos |-> ty.pos + 2,
                   param |-> ParameterWithGuard(Current(tokens, pos).name, ty.ty,
                                                Current(tokens, ty.pos + 1).e)]
             ELSE failed
        ELSE [ok |-> TRUE, pos |-> ty.pos,
              param |-> ParameterWithGuard(Current(tokens, pos).name, ty.ty, NoExpr)]

\* parser.rs parse_function_declaration and the method branch of
\* parse_declaration: the loop over the parameters up to ')'.  Each parsed
\* parameter is pushed as Parameter { name, ty }, which has no guard.
RECURSIVE parse_parameters(_, _, _)
parse_parameters(tokens, pos, parameters) ==
    IF Current(tokens, pos).t = "RightParen"
    THEN [ok |-> TRUE, pos |-> pos, parameters |-> parameters]
    ELSE LET param_with_guard == parse_parameter_with_guard(tokens, pos)
             pushed == Append(parameters,
                              ParameterWithGuard(param_with_guard.param.name,
                                                 param_with_guard.param.ty, NoExpr))
         IN  IF ~param_with_guard.ok
             THEN [ok |-> FALSE, pos |-> pos, parameters |-> parameters]
             ELSE IF Current(tokens, param_with_guard.pos).t = "Comma"
             THEN parse_parameters(tokens, param_with_guard.pos + 1, pushed)
             ELSE IF Current(tokens, param_with_guard.pos).t # "RightParen"
             THEN [ok |-> FALSE, pos |-> param_with_guard.pos, parameters |-> pushed]
             ELSE parse_parameters(tokens, param_with_guard.pos, pushed)

\* ast.rs Declaration::Function(FunctionDeclaration { .. })
FunctionNode(name, parameters, return_type, body) ==
    [k |-> "Function", name |-> name, parameters |-> parameters,
     return_type |-> return_type, body |-> body]
NoNode == [k |-> "None", name |-> "", parameters |-> <<>>, return_type |-> TUnknown,
           body |-> NoExpr]

\* parser.rs parse_declaration on the tokens of a fn or method declaration
\* (parse_function_declaration, and the method branch, which repeats it and
\* returns Declaration::Function as well)
parse_declaration(tokens) ==
    LET failed == [ok |-> FALSE, decl |-> NoNode]
        parameters == parse_parameters(tokens, 4, <<>>)
        return_type == parse_type(tokens, parameters.pos + 2)
    IN  IF Current(tokens, 1).t \notin {"Fn", "Method"} THEN failed
        ELSE IF Current(tokens, 2).t # "Identifier" THEN failed
        ELSE IF Current(tokens, 3).t # "LeftParen" THEN failed
        ELSE IF ~parameters.ok THEN failed
        ELSE IF Current(tokens, parameters.pos).t # "RightParen" THEN failed
        ELSE IF Current(tokens, parameters.pos + 1).t # "ReturnArrow" THEN failed
        ELSE IF ~return_type.ok THEN failed
        ELSE IF Current(tokens, return_type.pos).t # "LeftBrace" THEN failed
        ELSE IF Current(tokens, return_type.pos + 1).t # "Expression" THEN failed
        ELSE IF Current(tokens, return_type.pos + 2).t # "RightBrace" THEN failed
        ELSE [ok |-> TRUE,
              decl |-> FunctionNode(Current(tokens, 2).name, parameters.parameters,
                                    return_type.ty,
                                    Current(tokens, return_type.pos + 1).e)]

(***************************************************************************)
(* parser.rs: the expression parser.  Every function returns the parsed    *)
(* expression and the position of the token after it, or a failure.  The   *)
(* six binary levels (pipeline, or, and, comparison, additive,             *)
(* multiplicative) are the same loop over the next tighter level; level 7  *)
(* is the unary level.  The primary expressions are identifiers,           *)
(* literals and parenthesised expressions; let, match and calls with       *)
(* arguments are not among the expressions of the model.                   *)
(***************************************************************************)
IntTok(num) == [t |-> "Integer", name |-> "", e |-> LitI(num)]
ParseFailed(pos) == [ok |-> FALSE, pos |-> pos, e |-> NoExpr]
Parsed(pos, e) == [ok |-> TRUE, pos |-> pos, e |-> e]

\* faulty variant of LevelTokens: + and - bind tighter than * and /
LevelTokens_additive_tighter(level) ==
    CASE level = 1 -> {"Pipeline"}
      [] level = 2 -> {"Or"}
      [] level = 3 -> {"And"}
      [] level = 4 -> {"Equal", "NotEqual", "Less", "Greater", "LessEqual",
                       "GreaterEqual", "Contains"}
      [] level = 5 -> {"Star", "Slash"}
      [] level = 6 -> {"Plus", "Minus"}

\* the operator tokens each level's loop consumes: parse_pipeline_expression,
\* parse_or_expression, parse_and_expression, parse_comparison_expression,
\* parse_additive_expression, parse_multiplicative_expression
LevelTokens(level) ==
    CASE level = 1 -> {"Pipeline"}
      [] level = 2 -> {"Or"}
      [] level = 3 -> {"And"}
      [] level = 4 -> {"Equal", "NotEqual", "Less", "Greater", "LessEqual",
                       "GreaterEqual", "Contains"}
      [] level = 5 -> {"Plus", "Minus"}
      [] level = 6 -> {"Star", "Slash"}

\* the node each loop builds for its operator token
BinaryNode(tok, left, right) ==
    CASE tok = "Pipeline" -> Pipeline(left, right)
      [] tok = "Or" -> Binary("Or", left, right)
      [] tok = "And" -> Binary("And", left, right)
      [] tok = "Plus" -> Binary("Add", left, right)
      [] tok = "Minus" -> Binary("Subtract", left, right)
      [] tok = "Star" -> Binary("Multiply", left, right)
      [] tok = "Slash" -> Binary("Divide", left, right)
      [] OTHER -> Comparison(tok, left, right)

\* left = Node(op, left, right) after the right operand has been parsed
combine(tok, left, right) ==
    IF ~right.ok THEN right ELSE Parsed(right.pos, BinaryNode(tok, left.e, right.e))

\* expr = Unary(op, expr) after the operand has been parsed
wrap_unary(tok, inner) ==
    IF ~inner.ok THEN inner
    ELSE Parsed(inner.pos, Unary(IF tok = "Not" THEN "Not" ELSE "Minus", inner.e))

\* self.expect(Token::RightParen) after the parenthesised expression
close_paren(tokens, inner) ==
    IF ~inner.ok THEN inner
    ELSE IF Current(tokens, inner.pos).t # "RightParen" THEN ParseFailed(inner.pos)
    ELSE Parsed(inner.pos + 1, inner.e)

RECURSIVE parse_level(_, _, _)
RECURSIVE level_loop(_, _, _)
RECURSIVE parse_unary_expression(_, _)
RECURSIVE postfix_loop(_, _)

\* parser.rs parse_primary_expression
parse_primary_expression(tokens, pos) ==
    LET tok == Current(tokens, pos)
    IN  CASE tok.t = "Identifier" -> Parsed(pos + 1, Identifier(tok.name))
          [] tok.t = "Integer" -> Parsed(pos + 1, tok.e)
          [] tok.t = "True" -> Parsed(pos + 1, LitB(TRUE))
          [] tok.t = "False" -> Parsed(pos + 1, LitB(FALSE))
          [] tok.t = "LeftParen" -> close_paren(tokens, parse_level(1, tokens, pos + 1))
          [] OTHER -> ParseFailed(pos)

\* parser.rs parse_postfix_expression, the loop over '.' member and
\* '.' member '(' ')'
postfix_loop(tokens, expr) ==
    IF ~expr.ok \/ Current(tokens, expr.pos).t # "Dot" THEN expr
    ELSE IF Current(tokens, expr.pos + 1).t # "Identifier"
    THEN ParseFailed(expr.pos + 1)
    ELSE IF Current(tokens, expr.pos + 2).t # "LeftParen"
    THEN postfix_loop(tokens,
                      Parsed(expr.pos + 2,
                             MemberAccess(expr.e, Current(tokens, expr.pos + 1).name)))
    ELSE IF Current(tokens, expr.pos + 3).t # "RightParen"
    THEN ParseFailed(expr.pos + 3)
    ELSE postfix_loop(tokens,
                      Parsed(expr.pos + 4,
                             MethodCall(expr.e, Current(tokens, expr.pos + 1).name,
                                        <<>>)))

\* parser.rs parse_postfix_expression
parse_postfix_expression(tokens, pos) ==
    postfix_loop(tokens, parse_primary_expression(tokens, pos))

\* parser.rs parse_unary_expression
parse_unary_expression(tokens, pos) ==
    IF Current(tokens, pos).t \in {"Not", "Minus"}
    THEN wrap_unary(Current(tokens, pos).t, parse_unary_expression(tokens, pos + 1))
    ELSE parse_postfix_expression(tokens, pos)

\* the loop of a binary level: while the current token is an operator of
\* the level, advance, parse the right operand one level tighter, and nest
\* what has been parsed so far on the left
level_loop(level, tokens, left) ==
    IF ~left.ok \/ Current(tokens, left.pos).t \notin LevelTokens(level) THEN left
    ELSE level_loop(level, tokens,
                    combine(Current(tokens, left.pos).t, left,
                            parse_level(level + 1, tokens, left.pos + 1)))

\* parse_pipeline_expression (level 1) .. parse_multiplicative_expression
\* (level 6), parse_unary_expression (level 7)
parse_level(level, tokens, pos) ==
    IF level = 7 THEN parse_unary_expression(tokens, pos)
    ELSE level_loop(level, tokens, parse_level(level + 1, tokens, pos))

\* parser.rs parse_expression
parse_expression(tokens) == parse_level(1, tokens, 1)

NoExpressionParse == [ops |-> <<>>, decorated |-> FALSE, res |-> ParseFailed(0)]

(***************************************************************************)
(* value.rs: EmailAddress, the example value type written by hand.         *)
(***************************************************************************)
MaxHashCalls == 2
EmailSlots == 1..2

\* the bytes of the characters the model uses
CharCode(c) ==
    CASE c = "@" -> 64
      [] c = "A" -> 65
      [] c = "B" -> 66
      [] c = "C" -> 67
      [] c = "X" -> 88
      [] c = "a" -> 97
      [] c = "b" -> 98
      [] c = "c" -> 99
      [] c = "x" -> 120

\* faulty variant of EmailAddress::from: the raw string is stored as it is
EmailAddress_from_raw(raw) ==
    IF ~contains(raw, <<"@">>) \/ Len(raw) <= 3
    THEN [ok |-> FALSE, value |-> <<>>]
    ELSE [ok |-> TRUE, value |-> raw]

\* value.rs EmailAddress::from: Err unless the raw string contains '@' and
\* is longer than 3 bytes, otherwise EmailAddress { value: raw.to_lowercase() }
EmailAddress_from(raw) ==
    IF ~contains(raw, <<"@">>) \/ Len(raw) <= 3
    THEN [ok |-> FALSE, value |-> <<>>]
    ELSE [ok |-> TRUE, value |-> to_lowercase(raw)]

\* #[derive(PartialEq)] on EmailAddress { value }
email_eq(a, b) == a.value = b.value

\* impl ValueObject for EmailAddress, equals: the other object downcasts to
\* EmailAddress (every object of the model is one) and is compared with ==
email_equals(a, other) == email_eq(a, other)

\* impl ValueObject for EmailAddress, hash_value: #[derive(Hash)] feeds the
\* bytes of value to DefaultHasher::new(), whose keys are fixed; the hasher
\* is a function of the bytes, here a polynomial over them in 16 bits
RECURSIVE HashBytes(_, _, _)
HashBytes(str, i, h) ==
    IF i > Len(str) THEN h
    ELSE HashBytes(str, i + 1, (h * 31 + CharCode(str[i])) % 65536)

hash_value(email) == HashBytes(email.value, 1, 7)

NoEmail ==
    [raw |-> <<>>, built |-> FALSE, res |-> [ok |-> FALSE, value |-> <<>>],
     hashes |-> <<>>]

(***************************************************************************)
(* lexer.rs: the Lexer.  The input is a sequence of characters, position   *)
(* is 1-based (position 1 is the first character) and current_char is None *)
(* (here "") once the position is past the end.  A token is a record       *)
(* [k, name]; a Lexer error is the token "Error" with its message (the     *)
(* line and column an error carries are not modelled).  Of the token set   *)
(* the model covers what the characters / * a and whitespace can form.     *)
(***************************************************************************)
\* lexer.rs Lexer: current_char
current_char(input, position) ==
    IF position >= 1 /\ position <= Len(input) THEN input[position] ELSE ""

LexToken(k) == [k |-> k, name |-> <<>>]
LexError(message) == [k |-> "Error", name |-> message]

\* lexer.rs skip_whitespace
RECURSIVE skip_whitespace(_, _)
skip_whitespace(input, position) ==
    IF current_char(input, position) \in {" ", "\n"}
    THEN skip_whitespace(input, position + 1)
    ELSE position

\* lexer.rs next_token, '/' branch: a line comment runs to the end of the line
RECURSIVE skip_line_comment(_, _)
skip_line_comment(input, position) ==
    IF current_char(input, position) \notin {"", "\n"}
    THEN skip_line_comment(input, position + 1)
    ELSE position

\* an opener inside a comment that does not deepen the nesting
open_comment_ignored(depth) == depth

\* lexer.rs skip_multiline_comment: `depth += 1` on an opener
open_comment(depth) == depth + 1

\* lexer.rs skip_multiline_comment: the loop, entered behind the opening /*
\* with depth 1; the result is the position the loop stops at and whether
\* the depth came back to zero
RECURSIVE comment_loop(_, _, _)
comment_loop(input, position, depth) ==
    IF depth > 0 /\ current_char(input, position) # ""
    THEN IF current_char(input, position) = "*"
         THEN IF current_char(input, position + 1) = "/"
              THEN comment_loop(input, position + 2, depth - 1)
              ELSE comment_loop(input, position + 1, depth)
         ELSE IF current_char(input, position) = "/"
         THEN IF current_char(input, position + 1) = "*"
              THEN comment_loop(input, position + 2, open_comment(depth))
              ELSE comment_loop(input, position + 1, depth)
         ELSE comment_loop(input, position + 1, depth)
    ELSE [position |-> position, ok |-> depth = 0]

skip_multiline_comment(input, position) == comment_loop(input, position, 1)

\* lexer.rs read_identifier: the end of the run of identifier characters
RECURSIVE identifier_end(_, _)
identifier_end(input, position) ==
    IF current_char(input, position) \in {"a", "_"}
    THEN identifier_end(input, position + 1)
    ELSE position

Lexed(position, tok) == [position |-> position, tok |-> tok]

\* lexer.rs next_token: the token at the position and the position behind it
RECURSIVE next_token(_, _)
\* `self.skip_multiline_comment()?; self.next_token()`
after_comment(input, skipped) ==
    IF skipped.ok THEN next_token(input, skipped.position)
    ELSE Lexed(skipped.position, LexError("Unterminated multi-line comment"))

\* next_token at a position where whitespace has been skipped
token_at(input, position) ==
    CASE current_char(input, position) = "" -> Lexed(position, LexToken("Eof"))
      [] current_char(input, position) = "*" -> Lexed(position + 1, LexToken("Star"))
      [] current_char(input, position) = "/" ->
            IF current_char(input, position + 1) = "/"
            THEN next_token(input, skip_line_comment(input, position + 2))
            ELSE IF current_char(input, position + 1) = "*"
            THEN after_comment(input, skip_multiline_comment(input, position + 2))
            ELSE Lexed(position + 1, LexToken("Slash"))
      [] current_char(input, position) \in {"a", "_"} ->
            Lexed(identifier_end(input, position),
                  [k |-> "Identifier",
                   name |-> SubSeq(input, position,
                                   identifier_end(input, position) - 1)])
      [] OTHER -> Lexed(position, LexError("Unexpected character"))

next_token(input, position) == token_at(input, skip_whitespace(input, position))

\* no Lexer yet: position 0
NoLexer == [input |-> <<>>, position |-> 0, start |-> 0, tok |-> LexToken("")]

(***************************************************************************)
(* main.rs: the Repl, a TypeChecker and a Compiler side by side.  The      *)
(* TypeChecker's function types are the variable env; its value types      *)
(* (the names: TypeEnvironment.values maps a name to its ValueType) and    *)
(* its locals are fields of repl.  The Compiler's registry is the          *)
(* variables constructors and functions.  A program is a sequence of       *)
(* declarations: a value declaration by its name, a function declaration   *)
(* by its id.                                                              *)
(***************************************************************************)
ValueItem(name) == [kind |-> "value", name |-> name, id |-> 0]
FunctionItem(id) == [kind |-> "fn", name |-> "", id |-> id]

\* HashMap::new()
NoLocals == [nm \in {} |-> TString]

NoInput == [op |-> "none", program |-> <<>>, expr |-> NoExpr, ty |-> TBool,
            res |-> Blank]

\* Repl::new
NoRepl == [values |-> {}, locals |-> NoLocals, last |-> NoInput]

\* specialization.rs SpecializationCache::new
EmptySpecializations == [key \in {} |-> 0]

NoOptimized == [expr |-> NoExpr, res |-> Blank, plain |-> Blank,
                before |-> <<>>, plain_instances |-> <<>>]

\* no second registry: the machines with one registry keep it in functions
NoRegistries == [fns |-> <<>>, own |-> <<>>, last |-> [registry |-> 0]]

NoParse == [keyword |-> "", written |-> <<>>, comma |-> TRUE,
            res |-> [ok |-> FALSE, decl |-> NoNode]]

(***************************************************************************)
(* Threads sharing one registry (&ValueRegistry is Sync: instances is an   *)
(* Arc<RwLock<..>>).  A thread is idle, or has validated an input and is   *)
(* about to take the writer lock, or holds the writer lock before its      *)
(* push, or holds a reader lock before its clone.                          *)
(***************************************************************************)
Threads == 1..NumThreads
Idle == [pc |-> "idle", type_name |-> "", input |-> Blank]
Unlocked == [writer |-> 0, readers |-> {}]

\* the constructions the threads attempt: C(0) fails validation, C(5), U(0)
\* and U(5) succeed
ThreadTypes == {"C", "U"}
ThreadPayloads == {IntegerV(0), IntegerV(5)}

(***************************************************************************)
(* value.rs: ValueRegistry.                                                *)
(***************************************************************************)
\* the entries of all instance lists together
RECURSIVE SumLen(_, _)
SumLen(insts, names) ==
    IF names = {} THEN 0
    ELSE LET nm == CHOOSE x \in names : TRUE
         IN  Len(insts[nm]) + SumLen(insts, names \ {nm})

TotalInstances(insts) == SumLen(insts, DOMAIN insts)

\* value.rs create_value_object: GenericValueObject { type_name, data }
create_value_object(type_name, input) == [type_name |-> type_name, data |-> input]

\* faulty variant of register_instance: the instance is put at the front
register_instance_front(insts, type_name, instance) ==
    [insts EXCEPT ![type_name] = <<instance>> \o @]

\* faulty variant of register_instance: the entry of the type is replaced by
\* a list of the new instance alone
register_instance_replace(insts, type_name, instance) ==
    [insts EXCEPT ![type_name] = <<instance>>]

\* value.rs register_instance: instances.entry(type_name).or_insert_with(Vec::new)
\* .push(instance)
register_instance(insts, type_name, instance) ==
    [insts EXCEPT ![type_name] = Append(@, instance)]

\* value.rs get_all_instances: a clone of the list, or an empty list
get_all_instances(insts, type_name) ==
    IF type_name \in DOMAIN insts THEN insts[type_name] ELSE <<>>

\* faulty variant of count_instances: the lists of all types are counted
count_instances_all_types(insts, type_name) == TotalInstances(insts)

\* value.rs count_instances
count_instances(insts, type_name) == Len(get_all_instances(insts, type_name))

(***************************************************************************)
(* evaluator.rs: the instances of a type as a List (Type-as-Relation).     *)
(***************************************************************************)
ListV(items) == [Blank EXCEPT !.t = "List", !.items = items]

\* the EvalValue::Value built for one stored instance: its type name, and
\* the parameter of the constructor as its only field when the data
\* downcasts to the declared parameter type; no field otherwise.  The code
\* has this closure twice, in the built-in all and in the method all.
InstanceValue(ctors, type_name, instance) ==
    LET decl == ValueDecl(type_name)
        extracted ==
            /\ type_name \in ctors
            /\ \/ decl.parameter.ty.k = "String" /\ instance.data.t = "String"
               \/ decl.parameter.ty.k = "Int" /\ instance.data.t = "Integer"
               \/ decl.parameter.ty.k = "Bool" /\ instance.data.t = "Boolean"
    IN  IF extracted
        THEN ValueV(instance.type_name, decl.parameter.name, instance.data)
        ELSE [Blank EXCEPT !.t = "Value", !.ty = instance.type_name]

\* registry.get_all_instances(type_name) mapped to EvalValues and collected
InstanceList(ctors, insts, type_name) ==
    LET stored == get_all_instances(insts, type_name)
    IN  ListV([i \in 1..Len(stored) |-> InstanceValue(ctors, type_name, stored[i])])

\* evaluator.rs evaluate_expression, FunctionCall: the built-in all on its
\* evaluated arguments
builtin_all(arg_values, ctors, insts) ==
    IF arg_values[1].t = "Type"
    THEN InstanceList(ctors, insts, arg_values[1].ty)
    ELSE ErrV("all() expects a Type argument", "function")

\* evaluate_expression(FunctionCall("all", [Identifier(type_name)])) in the
\* empty context: the argument is evaluated first
call_all(type_name, ctors, insts) ==
    LET arg == evaluate_expression(Identifier(type_name), EmptyContext, ctors)
    IN  IF IsErr(arg) THEN arg ELSE builtin_all(<<arg>>, ctors, insts)

\* evaluate_expression(MethodCall(Identifier(type_name), "all", [])) in the
\* empty context: the identifier is looked up among the constructors, and
\* is otherwise unknown
method_all(type_name, ctors, insts) ==
    IF type_name \in ctors THEN InstanceList(ctors, insts, type_name)
    ELSE ErrV("Unknown identifier", "")

\* faulty variant of construct: the instance is registered before the
\* validator has run
construct_register_first(ctors, insts, type_name, input) ==
    IF type_name \notin ctors
    THEN [res |-> ErrV("Unknown value type", type_name), instances |-> insts]
    ELSE LET registered ==
                 register_instance(insts, type_name,
                                   create_value_object(type_name, input))
             checked == validator(ValueDecl(type_name), input)
         IN  [res |-> IF IsErr(checked) THEN checked ELSE [Blank EXCEPT !.t = "Ok"],
              instances |-> registered]

\* value.rs construct: the constructor is looked up, the validator runs on
\* the input, the value object is created and registered.  Returns the
\* Result and the instance lists after the call.
construct(ctors, insts, type_name, input) ==
    IF type_name \notin ctors
    THEN [res |-> ErrV("Unknown value type", type_name), instances |-> insts]
    ELSE LET checked == validator(ValueDecl(type_name), input)
         IN  IF IsErr(checked)
             THEN [res |-> checked, instances |-> insts]
             ELSE LET value == create_value_object(type_name, input)
                  IN  [res |-> [Blank EXCEPT !.t = "Ok"],
                       instances |-> register_instance(insts, type_name, value)]

NoResult == [op |-> "none", type_name |-> "", input |-> Blank, res |-> Blank]

(***************************************************************************)
(* The registry after compile_program has registered the four value        *)
(* declarations: ValueRegistry::new() followed by register for each.       *)
(***************************************************************************)
Init ==
    /\ constructors = ValueNames
    /\ instances = [nm \in TypeNames |-> <<>>]
    /\ result = NoResult
    /\ okCount = [nm \in TypeNames |-> 0]
    /\ functions = [nm \in FunctionNames |-> <<>>]
    /\ cache = EmptyCache
    /\ dres = NoCall
    /\ env = EmptyEnv
    /\ declared = NoDeclaration
    /\ threads = [t \in Threads |-> Idle]
    /\ lock = Unlocked
    /\ acquired = [nm \in TypeNames |-> <<>>]
    /\ lastRead = [nm \in TypeNames |-> <<>>]
    /\ build \in Builds
    /\ evres = NoEvaluation
    /\ parsed = NoParse
    /\ registries = NoRegistries
    /\ opt = NoOptimized
    /\ specializations = EmptySpecializations
    /\ repl = NoRepl
    /\ lexer = NoLexer
    /\ emails = [slot \in EmailSlots |-> NoEmail]
    /\ pexpr = NoExpressionParse

\* registry.construct(type_name, input)
Construct(type_name, input) ==
    /\ TotalInstances(instances) < MaxInstances
    /\ LET r == construct(constructors, instances, type_name, input)
       IN  /\ instances' = r.instances
           /\ result' = [op |-> "construct", type_name |-> type_name,
                         input |-> input, res |-> r.res]
           /\ okCount' = [okCount EXCEPT
                             ![type_name] = IF IsErr(r.res) THEN @ ELSE @ + 1]
    /\ UNCHANGED <<constructors, build, registries, opt, specializations, repl, lexer, emails, pexpr, parsed, evres, dispatchVars, checkerVars, threadVars>>

\* evaluator.rs evaluate_expression, MethodCall: T.count() on an identifier
\* that names a constructor; any other identifier is unknown (the context
\* of a top-level expression is empty)
Count(type_name) ==
    /\ result' = [op |-> "count", type_name |-> type_name, input |-> Blank,
                  res |-> IF type_name \in constructors
                          THEN IntegerV(count_instances(instances, type_name))
                          ELSE ErrV("Unknown identifier", "")]
    /\ UNCHANGED <<constructors, build, registries, opt, specializations, repl, lexer, emails, pexpr, parsed, evres, instances, okCount, dispatchVars, checkerVars, threadVars>>

\* evaluate_expression on all(T)
AllCall(type_name) ==
    /\ result' = [op |-> "all", type_name |-> type_name, input |-> Blank,
                  res |-> call_all(type_name, constructors, instances)]
    /\ UNCHANGED <<constructors, build, registries, opt, specializations, repl, lexer, emails, pexpr, parsed, evres, instances, okCount, dispatchVars, checkerVars,
                   threadVars>>

\* evaluate_expression on T.all()
AllMethod(type_name) ==
    /\ result' = [op |-> "T.all", type_name |-> type_name, input |-> Blank,
                  res |-> method_all(type_name, constructors, instances)]
    /\ UNCHANGED <<constructors, build, registries, opt, specializations, repl, lexer, emails, pexpr, parsed, evres, instances, okCount, dispatchVars, checkerVars,
                   threadVars>>

Next ==
    \/ \E type_name \in TypeNames, input \in Payloads : Construct(type_name, input)
    \/ \E type_name \in TypeNames : Count(type_name)
    \/ \E type_name \in TypeNames : AllCall(type_name)
    \/ \E type_name \in TypeNames : AllMethod(type_name)

Spec == Init /\ [][Next]_vars

(***************************************************************************)
(* Properties of the registry machine (Spec).                              *)
(***************************************************************************)
\* the runtime tag of a declared primitive type
DeclaredTag(ty) ==
    CASE ty.k = "String" -> "String"
      [] ty.k = "Int" -> "Integer"
      [] ty.k = "Bool" -> "Boolean"
      [] OTHER -> "Value"

\* the validate predicate of a declaration, evaluated on a payload with the
\* parameter bound to it; a declaration without validate accepts
Validates(decl, payload) ==
    \/ decl.body.validate.k = "None"
    \/ evaluate_expression(decl.body.validate,
                           Bind(decl.parameter.name, payload), constructors)
          = BooleanV(TRUE)

\* C1: every instance stored in the registry for a type T carries a payload
\* of T's declared primitive type for which T's validate predicate evaluates
\* to true.
C1_StoredInstancesValid ==
    \A type_name \in constructors :
        \A i \in 1..Len(get_all_instances(instances, type_name)) :
            LET decl == ValueDecl(type_name)
                payload == get_all_instances(instances, type_name)[i].data
            IN  /\ payload.t = DeclaredTag(decl.parameter.ty)
                /\ Validates(decl, payload)

\* C2: the count of a type T is the number of construct calls for T that
\* returned Ok; failed calls do not count.
C2_CountIsSuccessfulConstructs ==
    /\ \A type_name \in TypeNames :
          count_instances(instances, type_name) = okCount[type_name]
    /\ (result.op = "count" /\ ~IsErr(result.res))
          => result.res = IntegerV(okCount[result.type_name])

\* one successful and then one failed construct of C: the count stays 1
C2_Witness ==
    /\ result.op = "construct"
    /\ result.type_name = "C"
    /\ IsErr(result.res)
    /\ okCount["C"] = 1
    /\ count_instances(instances, "C") = 1

\* C3: a construct call that fails returns a validation error and leaves the
\* instance list of every type exactly as it was before the call.
C3_FailedConstructChangesNothing ==
    [][(result'.op = "construct" /\ IsErr(result'.res))
          => /\ instances' = instances
             /\ result'.res.t = "Err"
             /\ \A type_name \in TypeNames :
                   get_all_instances(instances', type_name)
                      = get_all_instances(instances, type_name)]_vars

\* a construct has failed in a registry that holds an instance
C3_Witness ==
    /\ result.op = "construct"
    /\ IsErr(result.res)
    /\ result.type_name \in constructors
    /\ TotalInstances(instances) > 0

\* C4: a successful construct of a type with a normalize expression stores
\* the normalized payload: for E (normalize: raw.toLowerCase()) the lowercased
\* string, so that "Ab@x" is stored as "ab@x".
C4_NormalizedPayloadStored ==
    (/\ result.op = "construct"
     /\ ~IsErr(result.res)
     /\ HasNormalizer(ValueDecl(result.type_name))
     /\ result.input.t = "String")
        => LET stored == get_all_instances(instances, result.type_name)
           IN  stored[Len(stored)].data = StringV(to_lowercase(result.input.s))

\* C5: the instance list of a type declared unique: true never holds two
\* instances with equal payloads.
C5_UniqueHasNoDuplicates ==
    \A type_name \in constructors :
        ValueDecl(type_name).body.unique
            => \A i, j \in 1..Len(get_all_instances(instances, type_name)) :
                  i # j => get_all_instances(instances, type_name)[i].data
                              # get_all_instances(instances, type_name)[j].data

IsPrefix(a, b) == Len(a) <= Len(b) /\ SubSeq(b, 1, Len(a)) = a

\* C6: instance lists only grow at the end: the list of every type before a
\* step is a prefix of the list after it, and a successful construct of T
\* adds exactly one instance of T as the last element.
C6_InstanceListsAppendOnly ==
    [][/\ \A type_name \in TypeNames :
             IsPrefix(get_all_instances(instances, type_name),
                      get_all_instances(instances', type_name))
       /\ \A type_name \in TypeNames :
             okCount'[type_name] = okCount[type_name] + 1
                => LET after == get_all_instances(instances', type_name)
                   IN  /\ Len(after)
                             = Len(get_all_instances(instances, type_name)) + 1
                       /\ after[Len(after)].type_name = type_name
                       /\ after[Len(after)].data = result'.input]_vars

\* a list with two different instances, in the order of their construction
C6_Witness ==
    /\ Len(get_all_instances(instances, "U")) = 2
    /\ get_all_instances(instances, "U")[1].data = IntegerV(0)
    /\ get_all_instances(instances, "U")[2].data = IntegerV(5)
    /\ result.op = "construct"
    /\ result.input = IntegerV(5)

(***************************************************************************)
(* The dispatch machine: declarations are compiled into the registry and   *)
(* calls are evaluated, in any order (Repl::process_declaration and        *)
(* process_expression).  Each declaration of the program is compiled once. *)
(***************************************************************************)
DispatchInit ==
    /\ constructors = {"Int"}
    /\ instances = [nm \in TypeNames |-> <<>>]
    /\ result = NoResult
    /\ okCount = [nm \in TypeNames |-> 0]
    /\ functions = [nm \in FunctionNames |-> <<>>]
    /\ cache = EmptyCache
    /\ dres = NoCall
    /\ env = EmptyEnv
    /\ declared = NoDeclaration
    /\ threads = [t \in Threads |-> Idle]
    /\ lock = Unlocked
    /\ acquired = [nm \in TypeNames |-> <<>>]
    /\ lastRead = [nm \in TypeNames |-> <<>>]
    /\ build \in Builds
    /\ evres = NoEvaluation
    /\ parsed = NoParse
    /\ registries = NoRegistries
    /\ opt = NoOptimized
    /\ specializations = EmptySpecializations
    /\ repl = NoRepl
    /\ lexer = NoLexer
    /\ emails = [slot \in EmailSlots |-> NoEmail]
    /\ pexpr = NoExpressionParse

\* value.rs register_function
register_function(fns, id) ==
    [fns EXCEPT ![FunctionDecl(id).name] = Append(@, id)]

Registered(fns, id) ==
    \E i \in 1..Len(fns[FunctionDecl(id).name]) : fns[FunctionDecl(id).name][i] = id

\* compiler.rs compile_function_declaration
RegisterFunction(id) ==
    /\ ~Registered(functions, id)
    /\ Len(functions[FunctionDecl(id).name]) < MaxOverloads
    /\ functions' = register_function(functions, id)
    /\ UNCHANGED <<constructors, build, registries, opt, specializations, repl, lexer, emails, pexpr, parsed, evres, registryVars, cache, dres, checkerVars, threadVars>>

\* evaluate_expression(FunctionCall(name, args))
CallFunction(name, arg_values) ==
    /\ LET r == call_function(name, functions, arg_values, cache, constructors)
       IN  /\ cache' = r.cache
           /\ dres' = [name |-> name, args |-> arg_values,
                       overloads |-> functions[name], res |-> r.res,
                       index |-> r.index, path |-> r.path]
    /\ UNCHANGED <<constructors, build, registries, opt, specializations, repl, lexer, emails, pexpr, parsed, evres, registryVars, functions, checkerVars, threadVars>>

DispatchNext ==
    \/ \E id \in DeclIds : RegisterFunction(id)
    \/ \E name \in FunctionNames, arg_values \in ArgVectors :
          CallFunction(name, arg_values)

DispatchSpec == DispatchInit /\ [][DispatchNext]_vars

(***************************************************************************)
(* Properties of the dispatch machine (DispatchSpec).  dres is the last    *)
(* call: its arguments, the overload list it ran against, the index of the *)
(* overload it executed (-1: none) and the path it took.                   *)
(***************************************************************************)
\* C7: with exactly the overloads f(x: Int where x > 0) { 1 } and
\* f(x: Int) { 2 } registered, a call f(v) on an integer v returns 1 when
\* v > 0 and 2 when v <= 0, whatever calls came before it.
C7_GuardDecidesEveryCall ==
    (/\ dres.name = "f"
     /\ dres.overloads \in {<<1, 2>>, <<2, 1>>}
     /\ Len(dres.args) = 1
     /\ dres.args[1].t = "Integer")
        => dres.res = IntegerV(IF dres.args[1].n > 0 THEN 1 ELSE 2)

\* the runtime type of a value: its variant and, for a value object, the
\* name of its type
RuntimeType(value) == <<value.t, value.ty>>

SameRuntimeTypes(a, b) ==
    /\ Len(a) = Len(b)
    /\ \A i \in 1..Len(a) : RuntimeType(a[i]) = RuntimeType(b[i])

SameGuardOutcomes(funcs, a, b) ==
    \A i \in 1..Len(funcs) :
        guards_satisfied(FunctionDecl(funcs[i]), a, constructors)
            = guards_satisfied(FunctionDecl(funcs[i]), b, constructors)

\* C8: for a fixed overload list, the overload a call executes depends only
\* on the function name, the runtime types of the arguments and the guard
\* outcomes: it is the overload executed by any call that agrees on these
\* three and has no call before it (an empty cache).
C8_DispatchDeterminism ==
    dres.name # ""
        => \A other \in ArgVectors :
              (/\ SameRuntimeTypes(other, dres.args)
               /\ SameGuardOutcomes(dres.overloads, other, dres.args))
                  => dres.index
                        = call_function(dres.name,
                                        [nm \in FunctionNames |-> dres.overloads],
                                        other, EmptyCache, constructors).index

GuardFree(funcs) ==
    \A i \in 1..Len(funcs) :
        \A j \in 1..Len(FunctionDecl(funcs[i]).parameters) :
            FunctionDecl(funcs[i]).parameters[j].guard.k = "None"

\* the overloads (0-based indexes) that survive the filter for a call: the
\* arity is that of the call, every parameter type accepts its argument and
\* every guard is true
Survivors(funcs, arg_values) ==
    {index \in 0..(Len(funcs) - 1) :
        LET func == FunctionDecl(funcs[index + 1])
        IN  /\ Len(func.parameters) = Len(arg_values)
            /\ \A i \in 1..Len(func.parameters) :
                  /\ matches_type(func.parameters[i].ty, arg_values[i])
                  /\ func.parameters[i].guard.k # "None"
                        => evaluate_expression(
                               func.parameters[i].guard,
                               [nm \in {func.parameters[j].name :
                                           j \in 1..Len(func.parameters)} |->
                                   arg_values[CHOOSE j \in 1..Len(func.parameters) :
                                                 func.parameters[j].name = nm]],
                               constructors) = BooleanV(TRUE)}

\* the specificity table: 3 for Int, String, Bool, Value, Type and List, 1
\* for Any, 0 for Unknown, and 2 more for a guard; summed over the parameters
RECURSIVE TableScore(_, _)
TableScore(func, i) ==
    IF i > Len(func.parameters) THEN 0
    ELSE (IF func.parameters[i].ty.k
                \in {"Int", "String", "Bool", "Value", "Type", "List"} THEN 3
          ELSE IF func.parameters[i].ty.k = "Any" THEN 1
          ELSE 0)
         + (IF func.parameters[i].guard.k = "None" THEN 0 ELSE 2)
         + TableScore(func, i + 1)

StrictlyHighest(funcs, arg_values, index) ==
    /\ index \in Survivors(funcs, arg_values)
    /\ \A j \in Survivors(funcs, arg_values) \ {index} :
          TableScore(FunctionDecl(funcs[index + 1]), 1)
              > TableScore(FunctionDecl(funcs[j + 1]), 1)

\* C9: a call that finds no cache entry, against two or more overloads,
\* executes the survivor with the strictly highest specificity score, and
\* executes it whenever there is one; with f(x: Int) and f(x: Any), f(3) runs
\* the Int overload and f(true) the Any overload.
C9_MostSpecificSurvivorRuns ==
    (dres.path = "full" /\ Len(dres.overloads) >= 2)
        => /\ dres.index >= 0
                => /\ StrictlyHighest(dres.overloads, dres.args, dres.index)
                   /\ dres.res = RunBody(dres.overloads, dres.index, dres.args,
                                         constructors)
           /\ \A index \in 0..(Len(dres.overloads) - 1) :
                 StrictlyHighest(dres.overloads, dres.args, index)
                    => dres.index = index
           /\ (dres.overloads \in {<<2, 3>>, <<3, 2>>} /\ dres.args = <<IntegerV(3)>>)
                 => dres.res = IntegerV(2)
           /\ (dres.overloads \in {<<2, 3>>, <<3, 2>>}
               /\ dres.args = <<BooleanV(TRUE)>>)
                 => dres.res = IntegerV(0)

\* a call without a cache entry had two survivors and ran one of them
C9_Witness ==
    /\ dres.path = "full"
    /\ dres.index >= 0
    /\ Cardinality(Survivors(dres.overloads, dres.args)) >= 2
    /\ \E i \in 1..Len(dres.overloads) :
          FunctionDecl(dres.overloads[i]).parameters[1].guard.k # "None"

\* C10: against an overload list without guards, a call served from the
\* dispatch cache executes the overload that full dispatch selects for the
\* same name and argument values.
C10_CacheAgreesWithFullDispatch ==
    (dres.path = "cache" /\ GuardFree(dres.overloads))
        => dres.index
              = full_dispatch(dres.name, dres.overloads, dres.args, EmptyCache,
                              constructors).index

\* C11: overload sets are write-once: once a call has been evaluated against
\* the registry no declaration is registered any more, so the overload list
\* of the registry is still the list the last call (and every cache entry)
\* was evaluated against.
C11_FrozenAfterFirstEvaluation ==
    (dres.name # "" /\ cache # EmptyCache) => functions[dres.name] = dres.overloads

(***************************************************************************)
(* The declaration machine: the declarations of a session, each parsed,    *)
(* type checked and compiled (Repl::process_declaration); a declaration    *)
(* may be given more than once.                                            *)
(***************************************************************************)
DeclareInit ==
    /\ constructors = {"Int"}
    /\ instances = [nm \in TypeNames |-> <<>>]
    /\ result = NoResult
    /\ okCount = [nm \in TypeNames |-> 0]
    /\ functions = [nm \in FunctionNames |-> <<>>]
    /\ cache = EmptyCache
    /\ dres = NoCall
    /\ env = EmptyEnv
    /\ declared = NoDeclaration
    /\ threads = [t \in Threads |-> Idle]
    /\ lock = Unlocked
    /\ acquired = [nm \in TypeNames |-> <<>>]
    /\ lastRead = [nm \in TypeNames |-> <<>>]
    /\ build \in Builds
    /\ evres = NoEvaluation
    /\ parsed = NoParse
    /\ registries = NoRegistries
    /\ opt = NoOptimized
    /\ specializations = EmptySpecializations
    /\ repl = NoRepl
    /\ lexer = NoLexer
    /\ emails = [slot \in EmailSlots |-> NoEmail]
    /\ pexpr = NoExpressionParse

\* Repl::process_declaration on one function declaration: check_program,
\* and after a successful check compile_program
Declare(id) ==
    /\ Len(functions[FunctionDecl(id).name]) < MaxOverloads
    /\ LET checked == check_function_declaration(env, FunctionDecl(id))
       IN  IF IsTypeErr(checked.res)
           THEN /\ declared' = [id |-> id, res |-> "TypeError"]
                /\ UNCHANGED <<env, functions>>
           ELSE /\ declared' = [id |-> id, res |-> "Ok"]
                /\ env' = checked.env
                /\ functions' = register_function(functions, id)
    /\ UNCHANGED <<constructors, build, registries, opt, specializations, repl, lexer, emails, pexpr, parsed, evres, registryVars, cache, dres, threadVars>>

DeclareNext == \E id \in DeclarableIds : Declare(id)

DeclareSpec == DeclareInit /\ [][DeclareNext]_vars

\* the parameter types of a declaration
ParamTypes(decl) == [i \in 1..Len(decl.parameters) |-> decl.parameters[i].ty]

Unguarded(decl) ==
    \A i \in 1..Len(decl.parameters) : decl.parameters[i].guard.k = "None"

\* C12: a function declaration whose name and parameter types are those of
\* an earlier declaration, neither having a guard, is rejected with a type
\* error and not registered: an overload list never holds two unguarded
\* declarations with equal parameter types.
C12_DuplicateOverloadRejected ==
    \A nm \in FunctionNames :
        \A i, j \in 1..Len(functions[nm]) :
            (/\ i < j
             /\ Unguarded(FunctionDecl(functions[nm][i]))
             /\ Unguarded(FunctionDecl(functions[nm][j])))
                => ParamTypes(FunctionDecl(functions[nm][i]))
                      # ParamTypes(FunctionDecl(functions[nm][j]))

\* the survivors with the highest specificity score of the table
TopSurvivors(funcs, arg_values) ==
    {index \in Survivors(funcs, arg_values) :
        \A j \in Survivors(funcs, arg_values) :
            TableScore(FunctionDecl(funcs[index + 1]), 1)
                >= TableScore(FunctionDecl(funcs[j + 1]), 1)}

\* C13: a call dispatched among two or more overloads of which none
\* survives, or of which several survivors share the highest score, returns
\* a validation error, evaluates no overload and leaves the dispatch cache
\* as it was.
C13_NoWinnerIsAnError ==
    [][(/\ functions' = functions
        /\ dres'.name # ""
        /\ dres'.overloads = functions[dres'.name]
        /\ Len(dres'.overloads) >= 2
        /\ Cardinality(TopSurvivors(dres'.overloads, dres'.args)) # 1)
          => /\ IsErr(dres'.res)
             /\ dres'.index = -1
             /\ cache' = cache]_vars

(***************************************************************************)
(* The thread machine: construct and get_all_instances called from several *)
(* threads on one registry.  construct validates without a lock; the       *)
(* RwLock admits one writer, or any number of readers.                     *)
(***************************************************************************)
ThreadInit ==
    /\ constructors = ValueNames
    /\ instances = [nm \in TypeNames |-> <<>>]
    /\ result = NoResult
    /\ okCount = [nm \in TypeNames |-> 0]
    /\ functions = [nm \in FunctionNames |-> <<>>]
    /\ cache = EmptyCache
    /\ dres = NoCall
    /\ env = EmptyEnv
    /\ declared = NoDeclaration
    /\ threads = [t \in Threads |-> Idle]
    /\ lock = Unlocked
    /\ acquired = [nm \in TypeNames |-> <<>>]
    /\ lastRead = [nm \in TypeNames |-> <<>>]
    /\ build \in Builds
    /\ evres = NoEvaluation
    /\ parsed = NoParse
    /\ registries = NoRegistries
    /\ opt = NoOptimized
    /\ specializations = EmptySpecializations
    /\ repl = NoRepl
    /\ lexer = NoLexer
    /\ emails = [slot \in EmailSlots |-> NoEmail]
    /\ pexpr = NoExpressionParse

\* value.rs construct up to register_instance: the constructor lookup and
\* the validator; a failed call returns at once
BeginConstruct(t, type_name, input) ==
    /\ threads[t].pc = "idle"
    /\ TotalInstances(acquired)
          + Cardinality({u \in Threads : threads[u].pc = "validated"})
          < MaxInstances
    /\ LET failed == \/ type_name \notin constructors
                     \/ IsErr(validator(ValueDecl(type_name), input))
       IN  threads' = [threads EXCEPT
                          ![t] = IF failed THEN Idle
                                 ELSE [pc |-> "validated", type_name |-> type_name,
                                       input |-> input]]
    /\ UNCHANGED <<constructors, build, registries, opt, specializations, repl, lexer, emails, pexpr, parsed, evres, registryVars, dispatchVars, checkerVars, lock,
                   acquired, lastRead>>

\* value.rs register_instance: self.instances.write()
AcquireWrite(t) ==
    /\ threads[t].pc = "validated"
    /\ lock = Unlocked
    /\ lock' = [lock EXCEPT !.writer = t]
    /\ threads' = [threads EXCEPT ![t].pc = "writing"]
    /\ acquired' = [acquired EXCEPT
                       ![threads[t].type_name] =
                           Append(@, create_value_object(threads[t].type_name,
                                                         threads[t].input))]
    /\ UNCHANGED <<constructors, build, registries, opt, specializations, repl, lexer, emails, pexpr, parsed, evres, registryVars, dispatchVars, checkerVars, lastRead>>

\* value.rs register_instance: the push under the writer lock, the guard
\* dropped at the end of the block, and construct returning Ok
PushAndRelease(t) ==
    /\ threads[t].pc = "writing"
    /\ lock.writer = t
    /\ instances' = register_instance(instances, threads[t].type_name,
                                      create_value_object(threads[t].type_name,
                                                          threads[t].input))
    /\ okCount' = [okCount EXCEPT ![threads[t].type_name] = @ + 1]
    /\ lock' = Unlocked
    /\ threads' = [threads EXCEPT ![t] = Idle]
    /\ UNCHANGED <<constructors, build, registries, opt, specializations, repl, lexer, emails, pexpr, parsed, evres, result, dispatchVars, checkerVars, acquired,
                   lastRead>>

\* value.rs get_all_instances: self.instances.read()
AcquireRead(t, type_name) ==
    /\ threads[t].pc = "idle"
    /\ lock.writer = 0
    /\ lock' = [lock EXCEPT !.readers = @ \cup {t}]
    /\ threads' = [threads EXCEPT
                      ![t] = [pc |-> "reading", type_name |-> type_name,
                              input |-> Blank]]
    /\ UNCHANGED <<constructors, build, registries, opt, specializations, repl, lexer, emails, pexpr, parsed, evres, registryVars, dispatchVars, checkerVars, acquired,
                   lastRead>>

\* value.rs get_all_instances: the clone under the reader lock, returned
CloneAndRelease(t) ==
    /\ threads[t].pc = "reading"
    /\ t \in lock.readers
    /\ lastRead' = [lastRead EXCEPT
                       ![threads[t].type_name] =
                           get_all_instances(instances, threads[t].type_name)]
    /\ lock' = [lock EXCEPT !.readers = @ \ {t}]
    /\ threads' = [threads EXCEPT ![t] = Idle]
    /\ UNCHANGED <<constructors, build, registries, opt, specializations, repl, lexer, emails, pexpr, parsed, evres, registryVars, dispatchVars, checkerVars, acquired>>

ThreadNext ==
    \/ \E t \in Threads, type_name \in ThreadTypes, input \in ThreadPayloads :
          BeginConstruct(t, type_name, input)
    \/ \E t \in Threads : AcquireWrite(t)
    \/ \E t \in Threads : PushAndRelease(t)
    \/ \E t \in Threads, type_name \in ThreadTypes : AcquireRead(t, type_name)
    \/ \E t \in Threads : CloneAndRelease(t)

ThreadSpec == ThreadInit /\ [][ThreadNext]_vars

\* the threads that hold the writer lock for a push to the list of a type
Writing(type_name) ==
    {t \in Threads : threads[t].pc = "writing" /\ threads[t].type_name = type_name}

\* C14: with several threads constructing on one registry, every successful
\* construct appends exactly one entry (the length of a list is the number
\* of successful constructs of its type), the order of a list is the order
\* in which the writer lock was taken, and a list returned to a reader is a
\* prefix of the list any later reader is given.
C14_ConcurrentAppends ==
    /\ [](\A type_name \in TypeNames :
             /\ Len(get_all_instances(instances, type_name)) = okCount[type_name]
             /\ IsPrefix(get_all_instances(instances, type_name),
                         acquired[type_name])
             /\ Len(acquired[type_name])
                   = Len(get_all_instances(instances, type_name))
                        + Cardinality(Writing(type_name))
             /\ IsPrefix(lastRead[type_name],
                         get_all_instances(instances, type_name)))
    /\ [][\A type_name \in TypeNames :
             IsPrefix(lastRead[type_name], lastRead'[type_name])]_vars

\* a reader was given the list of one instance, and a second thread holds
\* the writer lock for its push to the same list
C14_Witness ==
    /\ Len(get_all_instances(instances, "U")) = 1
    /\ lastRead["U"] = instances["U"]
    /\ Writing("U") # {}
    /\ Len(acquired["U"]) = 2

\* C15: all(E) and E.all() return the same list in every registry state:
\* one element per stored instance of E, in insertion order, each with the
\* type name and the payload of the instance.
C15_AllFormsAgree ==
    \A type_name \in constructors :
        LET stored == get_all_instances(instances, type_name)
            free == call_all(type_name, constructors, instances)
            receiver == method_all(type_name, constructors, instances)
        IN  /\ free = receiver
            /\ free.t = "List"
            /\ Len(free.items) = Len(stored)
            /\ \A i \in 1..Len(stored) :
                  /\ free.items[i].t = "Value"
                  /\ free.items[i].ty = stored[i].type_name
                  /\ FieldOf(free.items[i]) = stored[i].data
            /\ (result.op \in {"all", "T.all"} /\ result.type_name = type_name)
                  => result.res = free

(***************************************************************************)
(* evaluator.rs: calls.  A call works on the registry (overload sets,      *)
(* constructors, instances) and the dispatch cache, and returns the        *)
(* Result with the cache and the instance lists after the call.  The       *)
(* argument expressions of the model hold no calls themselves.             *)
(***************************************************************************)
CallResult(res, c, insts) == [res |-> res, cache |-> c, instances |-> insts]

\* evaluator.rs evaluate_expression, FunctionCall, the end of the constructor
\* branch: the error of construct, or the instance with the argument as its
\* field
constructor_result(made, value, c) ==
    CallResult(IF IsErr(made.res) THEN made.res ELSE value, c, made.instances)

\* evaluator.rs evaluate_expression, FunctionCall, the function branch: the
\* result of the call and the cache after it; the instances are untouched
function_result(called, insts) == CallResult(called.res, called.cache, insts)

\* evaluator.rs evaluate_expression, FunctionCall, behind the evaluation of
\* the arguments: the built-in all, a value constructor, the functions of
\* the name, and otherwise an unknown function (get_methods is always None)
call_with_values(name, arg_values, fns, c, ctors, insts) ==
    IF name = "all" /\ Len(arg_values) = 1
    THEN CallResult(builtin_all(arg_values, ctors, insts), c, insts)
    ELSE IF name \in ctors
    THEN IF Len(arg_values) # 1
         THEN CallResult(ErrV("Value constructor expects 1 argument", "constructor"),
                         c, insts)
         ELSE IF arg_values[1].t \notin {"String", "Integer", "Boolean"}
         THEN CallResult(ErrV("Invalid argument type for value constructor",
                              "constructor"), c, insts)
         ELSE constructor_result(
                  construct(ctors, insts, name, arg_values[1]),
                  ValueV(name, ValueDecl(name).parameter.name, arg_values[1]), c)
    ELSE function_result(call_function(name, fns, arg_values, c, ctors), insts)

\* evaluator.rs evaluate_expression, FunctionCall, with arguments that hold
\* no call of their own: the arguments are evaluated in order and the first
\* failure ends the call
eval_function_call(name, args, context, fns, c, ctors, insts) ==
    LET arg_values == [i \in 1..Len(args) |-> evaluate_expression(args[i], context, ctors)]
        failing == {i \in 1..Len(args) : Aborts(arg_values[i])}
    IN  IF failing # {}
        THEN CallResult(arg_values[CHOOSE i \in failing : \A j \in failing : i <= j],
                        c, insts)
        ELSE call_with_values(name, arg_values, fns, c, ctors, insts)

\* the arguments evaluated so far: their values, the error that ended the
\* evaluation (Blank while there is none), and the registry behind them
Arguments(values, res, c, insts) ==
    [values |-> values, res |-> res, cache |-> c, instances |-> insts]

next_argument(acc, r) ==
    IF Aborts(r.res) THEN Arguments(acc.values, r.res, r.cache, r.instances)
    ELSE Arguments(Append(acc.values, r.res), acc.res, r.cache, r.instances)

\* evaluator.rs evaluate_expression on one argument: a call, or an
\* expression without calls
eval_argument(arg, context, fns, c, ctors, insts) ==
    IF arg.k = "FunctionCall"
    THEN eval_function_call(arg.name, arg.args, context, fns, c, ctors, insts)
    ELSE CallResult(evaluate_expression(arg, context, ctors), c, insts)

\* evaluator.rs evaluate_expression, FunctionCall: the loop over the
\* arguments, each evaluated against the registry the earlier ones left
RECURSIVE eval_arguments(_, _, _, _, _, _)
eval_arguments(args, i, context, fns, ctors, acc) ==
    IF i > Len(args) \/ Aborts(acc.res) THEN acc
    ELSE eval_arguments(
             args, i + 1, context, fns, ctors,
             next_argument(acc, eval_argument(args[i], context, fns, acc.cache,
                                              ctors, acc.instances)))

after_arguments(name, acc, fns, ctors) ==
    IF Aborts(acc.res) THEN CallResult(acc.res, acc.cache, acc.instances)
    ELSE call_with_values(name, acc.values, fns, acc.cache, ctors, acc.instances)

\* evaluator.rs evaluate_expression, FunctionCall, with arguments that may
\* be calls themselves (value constructor calls)
eval_nested_call(name, args, context, fns, c, ctors, insts) ==
    after_arguments(name,
                    eval_arguments(args, 1, context, fns, ctors,
                                   Arguments(<<>>, Blank, c, insts)),
                    fns, ctors)

\* evaluator.rs value_to_expression: the expression for a value, or the
\* error for the values that have none
value_to_expression(val) ==
    CASE val.t \in {"String", "Integer", "Boolean"} ->
            [err |-> Blank, expr |-> Literal(val)]
      [] val.t = "Value" ->
            [err |-> ErrV("Cannot convert value type to expression", val.ty),
             expr |-> NoExpr]
      [] val.t = "Type" -> [err |-> Blank, expr |-> TypeLiteral(val.ty)]
      [] val.t = "List" ->
            [err |-> ErrV("Cannot convert List to expression", "List"),
             expr |-> NoExpr]

\* evaluator.rs evaluate_expression, Pipeline
eval_pipeline(left, right, context, fns, c, ctors, insts) ==
    LET left_val == evaluate_expression(left, context, ctors)
    IN  IF Aborts(left_val) THEN CallResult(left_val, c, insts)
        ELSE IF right.k \in {"Identifier", "FunctionCall"}
        THEN LET converted == value_to_expression(left_val)
             IN  IF IsErr(converted.err) THEN CallResult(converted.err, c, insts)
                 ELSE eval_function_call(
                          right.name,
                          <<converted.expr>>
                              \o (IF right.k = "FunctionCall" THEN right.args ELSE <<>>),
                          context, fns, c, ctors, insts)
        ELSE CallResult(ErrV("Pipeline right side must be a function", ""), c, insts)

\* evaluator.rs evaluate_expression, MethodCall: the built-in methods on the
\* evaluated receiver
builtin_method(obj_val, method, args) ==
    CASE obj_val.t = "String" /\ method = "toLowerCase" /\ args = <<>> ->
            StringV(to_lowercase(obj_val.s))
      [] obj_val.t = "String" /\ method = "toUpperCase" /\ args = <<>> ->
            StringV(to_uppercase(obj_val.s))
      [] obj_val.t = "List" /\ method = "length" /\ args = <<>> ->
            IntegerV(Len(obj_val.items))
      [] obj_val.t = "List" /\ method = "filter" /\ Len(args) = 1 ->
            ErrV("List.filter() not yet implemented", "method")
      [] obj_val.t = "List" /\ method = "find" /\ Len(args) = 1 ->
            ErrV("List.find() not yet implemented", "method")
      [] OTHER -> ErrV("Unknown method or wrong arguments", "")

\* registry.get_functions(name).is_some()
has_functions(fns, name) == name \in DOMAIN fns /\ fns[name] # <<>>

\* evaluator.rs evaluate_expression, MethodCall: an identifier naming a
\* type has the type methods only, an identifier nothing binds is unknown,
\* and any other receiver is passed to the functions of the name if there
\* are any and to the built-in methods otherwise
eval_method_call(obj, method, args, context, fns, c, ctors, insts) ==
    IF obj.k = "Identifier" /\ obj.name \in ctors
    THEN CASE method = "all" /\ args = <<>> ->
                 CallResult(InstanceList(ctors, insts, obj.name), c, insts)
           [] method = "count" /\ args = <<>> ->
                 CallResult(IntegerV(count_instances(insts, obj.name)), c, insts)
           [] OTHER ->
                 CallResult(ErrV("Unknown type method or wrong arguments", obj.name),
                            c, insts)
    ELSE IF obj.k = "Identifier" /\ obj.name \notin DOMAIN context
    THEN CallResult(ErrV("Unknown identifier", ""), c, insts)
    ELSE IF has_functions(fns, method)
    THEN eval_function_call(method, <<obj>> \o args, context, fns, c, ctors, insts)
    ELSE LET obj_val == evaluate_expression(obj, context, ctors)
         IN  CallResult(IF Aborts(obj_val) THEN obj_val
                        ELSE builtin_method(obj_val, method, args),
                        c, insts)

(***************************************************************************)
(* The evaluator machine: expressions evaluated one after another against  *)
(* a registry compiled from the four value declarations and                *)
(*   f(x: Int) -> Int { 2 }, f(x: Any) -> Int { 0 },                       *)
(*   f(x: Int, y: Any) -> Int { 5 }.                                       *)
(* The expressions read their operands from the names v and w of the       *)
(* context (a function body's parameters, or let-bound names).             *)
(***************************************************************************)
EvalInit ==
    /\ constructors = ValueNames
    /\ instances = [nm \in TypeNames |-> <<>>]
    /\ result = NoResult
    /\ okCount = [nm \in TypeNames |-> 0]
    /\ functions = [nm \in FunctionNames |-> <<2, 3, 4>>]
    /\ cache = EmptyCache
    /\ dres = NoCall
    /\ env = EmptyEnv
    /\ declared = NoDeclaration
    /\ threads = [t \in Threads |-> Idle]
    /\ lock = Unlocked
    /\ acquired = [nm \in TypeNames |-> <<>>]
    /\ lastRead = [nm \in TypeNames |-> <<>>]
    /\ build \in Builds
    /\ evres = NoEvaluation
    /\ parsed = NoParse
    /\ registries = NoRegistries
    /\ opt = NoOptimized
    /\ specializations = EmptySpecializations
    /\ repl = NoRepl
    /\ lexer = NoLexer
    /\ emails = [slot \in EmailSlots |-> NoEmail]
    /\ pexpr = NoExpressionParse

\* the values a scrutinee evaluates to: instances of C, U and E as the
\* evaluator builds them for a construction, and values that are no instance
MatchValues ==
    {ValueV("C", "n", IntegerV(5)), ValueV("U", "n", IntegerV(0)),
     ValueV("U", "n", IntegerV(5)), ValueV("E", "raw", StringV(<<"a", "@", "b", "c">>)),
     IntegerV(5), BooleanV(TRUE)}

\* the arms: C(b) => b, C(b) => 1, U(b) => b, U(b) => 2
MatchArms ==
    {MatchArm("C", "b", Identifier("b")), MatchArm("C", "b", LitI(1)),
     MatchArm("U", "b", Identifier("b")), MatchArm("U", "b", LitI(2))}

ArmLists ==
    {<<>>} \cup {<<a>> : a \in MatchArms}
        \cup {<<a, b>> : a \in MatchArms, b \in MatchArms}

\* evaluate_expression on match v { arms } with v bound to value
EvalMatch(value, arms) ==
    /\ evres' = [NoEvaluation EXCEPT
                     !.op = "match", !.v = value, !.arms = arms,
                     !.res = evaluate_expression(Match(Identifier("v"), arms),
                                             Bind("v", value), constructors)]
    /\ UNCHANGED <<constructors, build, registries, opt, specializations, repl, lexer, emails, pexpr, parsed, registryVars, dispatchVars, checkerVars,
                   threadVars>>

\* the i64 operands (the ends of the range and the values around zero) and
\* the integer operators of BinaryOp
ArithOperands == {IntMin, IntMin + 1, -1, 0, 1, 2, IntMax - 1, IntMax}
ArithOps == {"Add", "Subtract", "Multiply", "Divide", "Modulo"}

\* evaluate_expression on v op w with v and w bound to integers
EvalArith(op, l, r) ==
    /\ evres' = [NoEvaluation EXCEPT
                     !.op = "binary", !.name = op, !.v = IntegerV(l),
                     !.w = IntegerV(r),
                     !.res = evaluate_expression(
                             Binary(op, Identifier("v"), Identifier("w")),
                             Insert(Bind("v", IntegerV(l)), "w", IntegerV(r)),
                             constructors)]
    /\ UNCHANGED <<constructors, build, registries, opt, specializations, repl, lexer, emails, pexpr, parsed, registryVars, dispatchVars, checkerVars,
                   threadVars>>

\* evaluate_expression on -v with v bound to an integer
EvalNegate(n) ==
    /\ evres' = [NoEvaluation EXCEPT
                     !.op = "unary", !.name = "Minus", !.v = IntegerV(n),
                     !.res = evaluate_expression(Unary("Minus", Identifier("v")),
                                             Bind("v", IntegerV(n)), constructors)]
    /\ UNCHANGED <<constructors, build, registries, opt, specializations, repl, lexer, emails, pexpr, parsed, registryVars, dispatchVars, checkerVars,
                   threadVars>>

EvalNext ==
    \/ \E value \in MatchValues, arms \in ArmLists : EvalMatch(value, arms)
    \/ \E op \in ArithOps, l \in ArithOperands, r \in ArithOperands :
            EvalArith(op, l, r)
    \/ \E n \in ArithOperands : EvalNegate(n)

EvalSpec == EvalInit /\ [][EvalNext]_vars

\* the arms (by position) whose constructor is the type name of an instance
MatchingArms(value, arms) ==
    {i \in 1..Len(arms) : value.t = "Value" /\ arms[i].constructor = value.ty}

\* C16: match selects the first arm whose constructor is the runtime type
\* name of the scrutinee instance and evaluates its body with the arm's
\* variable bound to the payload of the instance; when the scrutinee is no
\* instance or no arm's constructor matches it fails with a validation
\* error.
C16_MatchSelectsArmByConstructor ==
    evres.op = "match"
        => LET matching == MatchingArms(evres.v, evres.arms)
               first == CHOOSE i \in matching : \A j \in matching : i <= j
           IN  IF matching = {} THEN IsErr(evres.res)
               ELSE evres.res
                       = evaluate_expression(
                             evres.arms[first].body,
                             Bind(evres.arms[first].binding, FieldOf(evres.v)),
                             constructors)
(***************************************************************************)
(* The call machine: pipelines and method calls evaluated one after        *)
(* another against a registry that holds either the three overloads        *)
(*   f(x: Int) -> Int { 2 }, f(x: Any) -> Int { 0 },                       *)
(*   f(x: Int, y: Any) -> Int { 5 }                                        *)
(* or f(x: Any) -> Int { 0 } alone.  The dispatch cache persists from one  *)
(* evaluation to the next.                                                 *)
(***************************************************************************)
OverloadSets == {<<2, 3, 4>>, <<3>>}

CallInit ==
    /\ constructors = ValueNames
    /\ instances = [nm \in TypeNames |-> <<>>]
    /\ result = NoResult
    /\ okCount = [nm \in TypeNames |-> 0]
    /\ functions \in {[nm \in FunctionNames |-> overloads] : overloads \in OverloadSets}
    /\ cache = EmptyCache
    /\ dres = NoCall
    /\ env = EmptyEnv
    /\ declared = NoDeclaration
    /\ threads = [t \in Threads |-> Idle]
    /\ lock = Unlocked
    /\ acquired = [nm \in TypeNames |-> <<>>]
    /\ lastRead = [nm \in TypeNames |-> <<>>]
    /\ build \in Builds
    /\ evres = NoEvaluation
    /\ parsed = NoParse
    /\ registries = NoRegistries
    /\ opt = NoOptimized
    /\ specializations = EmptySpecializations
    /\ repl = NoRepl
    /\ lexer = NoLexer
    /\ emails = [slot \in EmailSlots |-> NoEmail]
    /\ pexpr = NoExpressionParse

\* one value of every kind of EvalValue
CallValues ==
    {StringV(<<"a">>), IntegerV(5), BooleanV(TRUE), ValueV("C", "n", IntegerV(5)),
     TypeV("C"), ListV(<<>>)}

\* the context of the evaluations: v and w are bound (as parameters of an
\* enclosing function body, or by let)
CallContext(value, extra) == Insert(Bind("v", value), "w", extra)
ExtraValue == IntegerV(1)

\* the right side of a pipeline: f, f(w), or an expression that is neither
PipelineForms == {"identifier", "call", "other"}
PipelineRight(name, form) ==
    CASE form = "identifier" -> Identifier(name)
      [] form = "call" -> FunctionCall(name, <<Identifier("w")>>)
      [] form = "other" -> LitI(1)

\* evaluate_expression on v |> right with v bound to value
EvalPipeline(value, name, form) ==
    LET r == eval_pipeline(Identifier("v"), PipelineRight(name, form),
                           CallContext(value, ExtraValue), functions, cache,
                           constructors, instances)
    IN  /\ evres' = [NoEvaluation EXCEPT
                         !.op = "pipeline", !.name = name, !.form = form,
                         !.v = value, !.w = ExtraValue, !.res = r.res]
        /\ cache' = r.cache
        /\ instances' = r.instances
    /\ UNCHANGED <<constructors, build, registries, opt, specializations, repl, lexer, emails, pexpr, parsed, result, okCount, functions, dres, checkerVars,
                   threadVars>>

\* the receivers of a method call with the value bound to v: the name v
\* bound to each value, and with v bound to an integer a literal, an
\* identifier naming a declared type, and an identifier nothing binds
Receivers ==
    {<<Identifier("v"), value>> : value \in CallValues}
        \cup {<<obj, IntegerV(5)>> :
                  obj \in {LitI(5), Identifier("C"), Identifier(UnknownName)}}

\* the arguments after the receiver: none, or w
MethodForms == {"none", "one"}
MethodArgs(form) == IF form = "one" THEN <<Identifier("w")>> ELSE <<>>

\* evaluate_expression on obj.name(args) with v bound to value
EvalMethod(obj, value, name, form) ==
    LET r == eval_method_call(obj, name, MethodArgs(form),
                              CallContext(value, ExtraValue), functions, cache,
                              constructors, instances)
    IN  /\ evres' = [NoEvaluation EXCEPT
                         !.op = "method", !.name = name, !.form = form, !.e = obj,
                         !.v = value, !.w = ExtraValue, !.res = r.res]
        /\ cache' = r.cache
        /\ instances' = r.instances
    /\ UNCHANGED <<constructors, build, registries, opt, specializations, repl, lexer, emails, pexpr, parsed, result, okCount, functions, dres, checkerVars,
                   threadVars>>

CallNext ==
    \/ \E value \in CallValues, name \in FunctionNames, form \in PipelineForms :
            EvalPipeline(value, name, form)
    \/ \E receiver \in Receivers, name \in FunctionNames, form \in MethodForms :
            EvalMethod(receiver[1], receiver[2], name, form)

CallSpec == CallInit /\ [][CallNext]_vars

\* two evaluations are equivalent: the same value or a validation error
\* both, and the same cache and instance lists afterwards
Equivalent(res, c, insts, call) ==
    /\ \/ res = call.res
       \/ IsErr(res) /\ IsErr(call.res)
    /\ c = call.cache
    /\ insts = call.instances

\* C17: for every runtime value v of the left side, v |> f is the call f(v)
\* and v |> f(args) is the call f(v, args): the same result and the same
\* effect on the cache and the instances; a right side that is neither an
\* identifier nor a call is a validation error.
C17_PipelineIsCall ==
    [][evres'.op = "pipeline"
          => LET context == CallContext(evres'.v, evres'.w)
                 args == IF evres'.form = "call" THEN <<Identifier("w")>> ELSE <<>>
             IN  IF evres'.form = "other"
                 THEN IsErr(evres'.res) /\ cache' = cache /\ instances' = instances
                 ELSE Equivalent(evres'.res, cache', instances',
                                 eval_function_call(evres'.name,
                                                    <<Identifier("v")>> \o args,
                                                    context, functions, cache,
                                                    constructors, instances))]_vars

\* C18: obj.m(args) is the call m(obj, args) for every receiver, an
\* identifier that names a declared type and an identifier nothing binds
\* included: the same result and the same effect on the cache and the
\* instances.
C18_MethodCallIsCall ==
    [][evres'.op = "method"
          => Equivalent(evres'.res, cache', instances',
                        eval_function_call(evres'.name,
                                           <<evres'.e>> \o MethodArgs(evres'.form),
                                           CallContext(evres'.v, evres'.w),
                                           functions, cache, constructors,
                                           instances))]_vars

\* C19: +, -, *, / and % on two integers and unary negation of an integer
\* return an Integer or fail with a validation error, and end in no other way,
\* the operands i64::MIN and -1 of a division and the negation of i64::MIN
\* included.
C19_ArithmeticIsTotal ==
    evres.op \in {"binary", "unary"}
        => evres.res.t = "Integer" \/ IsErr(evres.res)

(***************************************************************************)
(* The parser machine: declarations                                        *)
(*   keyword f(x: T [where G] [, y: T [where G]]) -> Int { 1 }             *)
(* parsed one after another, keyword being fn or method.                   *)
(***************************************************************************)
ParseInit ==
    /\ constructors = {}
    /\ instances = [nm \in TypeNames |-> <<>>]
    /\ result = NoResult
    /\ okCount = [nm \in TypeNames |-> 0]
    /\ functions = [nm \in FunctionNames |-> <<>>]
    /\ cache = EmptyCache
    /\ dres = NoCall
    /\ env = EmptyEnv
    /\ declared = NoDeclaration
    /\ threads = [t \in Threads |-> Idle]
    /\ lock = Unlocked
    /\ acquired = [nm \in TypeNames |-> <<>>]
    /\ lastRead = [nm \in TypeNames |-> <<>>]
    /\ build \in Builds
    /\ evres = NoEvaluation
    /\ parsed = NoParse
    /\ registries = NoRegistries
    /\ opt = NoOptimized
    /\ specializations = EmptySpecializations
    /\ repl = NoRepl
    /\ lexer = NoLexer
    /\ emails = [slot \in EmailSlots |-> NoEmail]
    /\ pexpr = NoExpressionParse

Keywords == {"Fn", "Method"}

\* the parameters as written: name: type, with or without a guard
WrittenParameters(name) ==
    {[name |-> name, ty |-> ty, guard |-> guard] :
        ty \in {"Int", "Any", "C"},
        guard \in {NoExpr, Comparison("Greater", Identifier(name), LitI(0)),
                   Comparison("Equal", Identifier(name), LitI(0))}}

WrittenLists ==
    {<<x>> : x \in WrittenParameters("x")}
        \cup {<<x, y>> : x \in WrittenParameters("x"), y \in WrittenParameters("y")}

\* the tokens of the lexer for one written parameter
ParameterTokens(written) ==
    <<IdentTok(written.name), Tok("Colon"), IdentTok(written.ty)>>
        \o (IF written.guard = NoExpr THEN <<>>
            ELSE <<Tok("Where"), ExprTok(written.guard)>>)

\* the tokens of the lexer for the declaration; comma = FALSE leaves the
\* comma between two parameters out
DeclarationTokens(keyword, written, comma) ==
    <<Tok(keyword), IdentTok("f"), Tok("LeftParen")>>
        \o ParameterTokens(written[1])
        \o (IF Len(written) = 2
            THEN (IF comma THEN <<Tok("Comma")>> ELSE <<>>)
                     \o ParameterTokens(written[2])
            ELSE <<>>)
        \o <<Tok("RightParen"), Tok("ReturnArrow"), IdentTok("Int"), Tok("LeftBrace"),
             ExprTok(LitI(1)), Tok("RightBrace")>>

\* Parser::parse_declaration on the tokens of the written declaration
ParseDeclaration(keyword, written, comma) ==
    /\ parsed' = [keyword |-> keyword, written |-> written, comma |-> comma,
                  res |-> parse_declaration(
                              DeclarationTokens(keyword, written, comma))]
    /\ UNCHANGED <<constructors, build, registries, opt, specializations, repl, lexer, emails, pexpr, evres, registryVars, dispatchVars,
                   checkerVars, threadVars>>

ParseNext ==
    \E keyword \in Keywords, written \in WrittenLists, comma \in BOOLEAN :
        ParseDeclaration(keyword, written, comma)

ParseSpec == ParseInit /\ [][ParseNext]_vars

\* C20: the declaration parsed from fn or method with the parameters
\* p: T where G is a function declaration (the same node for both keywords)
\* whose parameters carry, in order, the names and the guards as written.
C20_GuardSurvivesParsing ==
    parsed.keyword # "" /\ (parsed.comma \/ Len(parsed.written) = 1)
        => /\ parsed.res.ok
           /\ parsed.res.decl.k = "Function"
           /\ Len(parsed.res.decl.parameters) = Len(parsed.written)
           /\ \A i \in 1..Len(parsed.written) :
                 /\ parsed.res.decl.parameters[i].name = parsed.written[i].name
                 /\ parsed.res.decl.parameters[i].guard = parsed.written[i].guard

(***************************************************************************)
(* The expression parser machine: expressions                              *)
(*   a  op  b  op  c  op  d                                                *)
(* of up to four operands, parsed one after another.  A decorated          *)
(* expression has a unary minus before its second operand and the member   *)
(* access .m after its last.                                               *)
(***************************************************************************)
ExprParseInit ==
    /\ constructors = ValueNames
    /\ instances = [nm \in TypeNames |-> <<>>]
    /\ result = NoResult
    /\ okCount = [nm \in TypeNames |-> 0]
    /\ functions = [nm \in FunctionNames |-> <<>>]
    /\ cache = EmptyCache
    /\ dres = NoCall
    /\ env = EmptyEnv
    /\ declared = NoDeclaration
    /\ threads = [t \in Threads |-> Idle]
    /\ lock = Unlocked
    /\ acquired = [nm \in TypeNames |-> <<>>]
    /\ lastRead = [nm \in TypeNames |-> <<>>]
    /\ build \in Builds
    /\ evres = NoEvaluation
    /\ parsed = NoParse
    /\ registries = NoRegistries
    /\ opt = NoOptimized
    /\ specializations = EmptySpecializations
    /\ repl = NoRepl
    /\ lexer = NoLexer
    /\ emails = [slot \in EmailSlots |-> NoEmail]
    /\ pexpr = NoExpressionParse

MaxOperators == 3

\* one operator token of every binary level
OperatorTokens == {"Pipeline", "Or", "And", "Greater", "Minus", "Star"}

RECURSIVE OperatorLists(_)
OperatorLists(len) ==
    IF len = 0 THEN {<<>>}
    ELSE OperatorLists(len - 1)
             \cup {Append(ops, tok) :
                      ops \in {l \in OperatorLists(len - 1) : Len(l) = len - 1},
                      tok \in OperatorTokens}

OperandNames == <<"a", "b", "c", "d", "e", "f", "g", "h">>

\* the tokens of operand i of count operands
OperandTokens(i, count, decorated) ==
    (IF decorated /\ i = 2 THEN <<Tok("Minus")>> ELSE <<>>)
        \o <<IdentTok(OperandNames[i])>>
        \o (IF decorated /\ i = count THEN <<Tok("Dot"), IdentTok("m")>> ELSE <<>>)

\* the tokens of the lexer for the expression
RECURSIVE ExpressionTokensFrom(_, _, _)
ExpressionTokensFrom(ops, i, decorated) ==
    OperandTokens(i, Len(ops) + 1, decorated)
        \o (IF i > Len(ops) THEN <<>>
            ELSE <<Tok(ops[i])>> \o ExpressionTokensFrom(ops, i + 1, decorated))

ExpressionTokens(ops, decorated) == ExpressionTokensFrom(ops, 1, decorated)

\* Parser::new on the tokens of the written expression, then
\* Parser::parse_expression: a parser parses one input
ParseExpression(ops, decorated) ==
    /\ pexpr = NoExpressionParse
    /\ pexpr' = [ops |-> ops, decorated |-> decorated,
                 res |-> parse_expression(ExpressionTokens(ops, decorated))]
    /\ UNCHANGED <<constructors, build, registries, opt, specializations, repl, lexer, emails, evres, parsed, registryVars, dispatchVars,
                   checkerVars, threadVars>>

ExprParseNext ==
    \E ops \in OperatorLists(MaxOperators), decorated \in BOOLEAN :
        ParseExpression(ops, decorated)

ExprParseSpec == ExprParseInit /\ [][ExprParseNext]_vars

\* the binding strength the grammar gives an operator: pipeline binds
\* loosest, then ||, &&, comparison, additive, multiplicative
Strength(tok) ==
    CASE tok = "Pipeline" -> 1
      [] tok = "Or" -> 2
      [] tok = "And" -> 3
      [] tok \in {"Plus", "Minus"} -> 5
      [] tok \in {"Star", "Slash"} -> 6
      [] OTHER -> 4

\* operand i as the grammar reads it: postfix binds tighter than unary
Operand(i, count, decorated) ==
    LET postfix == IF decorated /\ i = count
                   THEN MemberAccess(Identifier(OperandNames[i]), "m")
                   ELSE Identifier(OperandNames[i])
    IN  IF decorated /\ i = 2 THEN Unary("Minus", postfix) ELSE postfix

\* the tree of operands lo..hi: it splits at the last of its loosest
\* operators (every level is left-associative)
RECURSIVE Grouped(_, _, _, _)
Grouped(ops, lo, hi, decorated) ==
    IF lo = hi THEN Operand(lo, Len(ops) + 1, decorated)
    ELSE LET loosest == CHOOSE s \in {Strength(ops[i]) : i \in lo..(hi - 1)} :
                            \A i \in lo..(hi - 1) : s <= Strength(ops[i])
             split == CHOOSE k \in lo..(hi - 1) :
                          /\ Strength(ops[k]) = loosest
                          /\ \A i \in lo..(hi - 1) : Strength(ops[i]) = loosest => i <= k
         IN  BinaryNode(ops[split], Grouped(ops, lo, split, decorated),
                        Grouped(ops, split + 1, hi, decorated))

\* C21: the parser gives |> the lowest precedence, then ||, &&, comparison,
\* additive, multiplicative, unary, postfix, every binary level
\* left-associative: the parsed expression consumes all tokens and is the
\* tree the grammar gives the written expression.
C21_PrecedenceAndAssociativity ==
    pexpr # NoExpressionParse
        => /\ pexpr.res.ok
           /\ pexpr.res.pos = Len(ExpressionTokens(pexpr.ops, pexpr.decorated)) + 1
           /\ pexpr.res.e = Grouped(pexpr.ops, 1, Len(pexpr.ops) + 1, pexpr.decorated)

\* x |> f |> g > 5 has been parsed as Pipeline(Pipeline(x, f), g > 5)
C21_Witness ==
    /\ pexpr.ops = <<"Pipeline", "Pipeline", "Greater">>
    /\ ~pexpr.decorated
    /\ pexpr.res.e = Pipeline(Pipeline(Identifier("a"), Identifier("b")),
                              Comparison("Greater", Identifier("c"), Identifier("d")))

(***************************************************************************)
(* The EmailAddress machine: two addresses built from raw strings, and     *)
(* hash_value called on them.                                              *)
(***************************************************************************)
EmailInit ==
    /\ constructors = ValueNames
    /\ instances = [nm \in TypeNames |-> <<>>]
    /\ result = NoResult
    /\ okCount = [nm \in TypeNames |-> 0]
    /\ functions = [nm \in FunctionNames |-> <<>>]
    /\ cache = EmptyCache
    /\ dres = NoCall
    /\ env = EmptyEnv
    /\ declared = NoDeclaration
    /\ threads = [t \in Threads |-> Idle]
    /\ lock = Unlocked
    /\ acquired = [nm \in TypeNames |-> <<>>]
    /\ lastRead = [nm \in TypeNames |-> <<>>]
    /\ build \in Builds
    /\ evres = NoEvaluation
    /\ parsed = NoParse
    /\ registries = NoRegistries
    /\ opt = NoOptimized
    /\ specializations = EmptySpecializations
    /\ repl = NoRepl
    /\ lexer = NoLexer
    /\ pexpr = NoExpressionParse
    /\ emails = [slot \in EmailSlots |-> NoEmail]

\* raw strings: x@yc in upper and lower case, one without '@', one too short
RawEmails ==
    {<<x, "@", y, "c">> : x \in {"a", "A", "b"}, y \in {"b", "B"}}
        \cup {<<"a", "b", "c", "x">>, <<"a", "@", "b">>}

\* let email = EmailAddress::from(raw)
EmailFrom(slot, raw) ==
    /\ emails' = [emails EXCEPT
                     ![slot] = [raw |-> raw, built |-> TRUE,
                                res |-> EmailAddress_from(raw), hashes |-> <<>>]]
    /\ UNCHANGED <<constructors, build, registries, opt, specializations, repl, lexer, pexpr, evres, parsed, registryVars,
                   dispatchVars, checkerVars, threadVars>>

\* email.hash_value()
HashValue(slot) ==
    /\ emails[slot].res.ok
    /\ Len(emails[slot].hashes) < MaxHashCalls
    /\ emails' = [emails EXCEPT
                     ![slot].hashes = Append(@, hash_value(emails[slot].res))]
    /\ UNCHANGED <<constructors, build, registries, opt, specializations, repl, lexer, pexpr, evres, parsed, registryVars,
                   dispatchVars, checkerVars, threadVars>>

EmailNext ==
    \/ \E slot \in EmailSlots, raw \in RawEmails : EmailFrom(slot, raw)
    \/ \E slot \in EmailSlots : HashValue(slot)

EmailSpec == EmailInit /\ [][EmailNext]_vars

\* two strings are equal ignoring case: the same length, and position by
\* position the same letter in either case
EqualIgnoringCase(a, b) ==
    /\ Len(a) = Len(b)
    /\ \A i \in 1..Len(a) : UpperChar(a[i]) = UpperChar(b[i])

\* C22: two addresses built from accepted raw strings are equal, by == and
\* by ValueObject::equals, exactly when the raw strings are equal ignoring
\* case; equal addresses have equal hash values; and hash_value returns the
\* same number on every call.
C22_EmailEqualityAndHash ==
    \A s \in EmailSlots, t \in EmailSlots :
        emails[s].res.ok /\ emails[t].res.ok
            => /\ email_eq(emails[s].res, emails[t].res)
                      <=> EqualIgnoringCase(emails[s].raw, emails[t].raw)
               /\ email_equals(emails[s].res, emails[t].res)
                      <=> EqualIgnoringCase(emails[s].raw, emails[t].raw)
               /\ email_eq(emails[s].res, emails[t].res)
                      => \A i \in 1..Len(emails[s].hashes),
                            j \in 1..Len(emails[t].hashes) :
                             emails[s].hashes[i] = emails[t].hashes[j]

\* two addresses from raw strings that differ in case only, each hashed twice
C22_Witness ==
    /\ emails[1].res.ok /\ emails[2].res.ok
    /\ emails[1].raw # emails[2].raw
    /\ email_eq(emails[1].res, emails[2].res)
    /\ Len(emails[1].hashes) = 2 /\ Len(emails[2].hashes) = 2

(***************************************************************************)
(* Claims about the dispatch machine, continued.                           *)
(***************************************************************************)
\* C23: on a call that is not served from the cache, the overload whose
\* body ran has as many parameters as the call has arguments, every argument
\* matches the type of its parameter, and every guard is true on the
\* arguments; also when the overload set has one member.
C23_OnlyEligibleOverloadRuns ==
    dres.path \in {"single", "full"} /\ dres.index >= 0
        => LET func == FunctionDecl(dres.overloads[dres.index + 1])
           IN  /\ Len(func.parameters) = Len(dres.args)
               /\ \A i \in 1..Len(dres.args) :
                     /\ matches_type(func.parameters[i].ty, dres.args[i])
                     /\ func.parameters[i].guard.k # "None"
                            => evaluate_expression(func.parameters[i].guard,
                                                   ParamContext(func, dres.args),
                                                   constructors)
                                   = BooleanV(TRUE)

(***************************************************************************)
(* Claims about the registry machine (Spec), continued.                    *)
(***************************************************************************)
\* C24: the validator closure agrees with the expression evaluator: for a
\* declaration with a validate expression and a payload of the declared
\* primitive type, the validator succeeds exactly when the expression,
\* evaluated with the parameter bound to the payload, is Boolean true.
\* (Registry machine: the last construct names the declaration and the
\* payload.)
C24_ValidatorAgreesWithEvaluator ==
    (/\ result.op = "construct"
     /\ result.type_name \in constructors
     /\ ValueDecl(result.type_name).body.validate.k # "None"
     /\ result.input.t = DeclaredTag(ValueDecl(result.type_name).parameter.ty))
        => (~IsErr(validator(ValueDecl(result.type_name), result.input))
               <=> Validates(ValueDecl(result.type_name), result.input))

(***************************************************************************)
(* The lexer machine: Lexer::new on a source text, then next_token pulled  *)
(* until the caller stops.  The source texts are the concatenations of at  *)
(* most MaxPieces pieces, so that nested and unbalanced comments, comments *)
(* followed by tokens and the overlaps /*/ and */* all occur.              *)
(***************************************************************************)
LexInit ==
    /\ constructors = ValueNames
    /\ instances = [nm \in TypeNames |-> <<>>]
    /\ result = NoResult
    /\ okCount = [nm \in TypeNames |-> 0]
    /\ functions = [nm \in FunctionNames |-> <<>>]
    /\ cache = EmptyCache
    /\ dres = NoCall
    /\ env = EmptyEnv
    /\ declared = NoDeclaration
    /\ threads = [t \in Threads |-> Idle]
    /\ lock = Unlocked
    /\ acquired = [nm \in TypeNames |-> <<>>]
    /\ lastRead = [nm \in TypeNames |-> <<>>]
    /\ build \in Builds
    /\ evres = NoEvaluation
    /\ parsed = NoParse
    /\ registries = NoRegistries
    /\ opt = NoOptimized
    /\ specializations = EmptySpecializations
    /\ repl = NoRepl
    /\ pexpr = NoExpressionParse
    /\ emails = [slot \in EmailSlots |-> NoEmail]
    /\ lexer = NoLexer

MaxPieces == 5

Pieces == {<<"/", "*">>, <<"*", "/">>, <<"/">>, <<"*">>, <<"a">>, <<" ">>}

RECURSIVE SourceTexts(_)
SourceTexts(count) ==
    IF count = 0 THEN {<<>>}
    ELSE LET shorter == SourceTexts(count - 1)
         IN  shorter \cup {text \o piece : text \in shorter, piece \in Pieces}

\* lexer.rs Lexer::new
LexerNew(input) ==
    /\ lexer' = [NoLexer EXCEPT !.input = input, !.position = 1]
    /\ UNCHANGED <<constructors, build, registries, opt, specializations, repl, emails, pexpr, parsed, evres, instances, result, okCount,
                   dispatchVars, checkerVars, threadVars>>

\* lexer.rs next_token; start is the position the call began at
NextToken ==
    /\ lexer.position >= 1
    /\ lexer.tok.k # "Eof"
    /\ lexer' = [lexer EXCEPT
                    !.start = lexer.position,
                    !.position = next_token(lexer.input, lexer.position).position,
                    !.tok = next_token(lexer.input, lexer.position).tok]
    /\ UNCHANGED <<constructors, build, registries, opt, specializations, repl, emails, pexpr, parsed, evres, instances, result, okCount,
                   dispatchVars, checkerVars, threadVars>>

\* one Lexer per run: Lexer::new happens once, before any next_token
LexNext ==
    \/ lexer = NoLexer /\ \E input \in SourceTexts(MaxPieces) : LexerNew(input)
    \/ NextToken

LexSpec == LexInit /\ [][LexNext]_vars

\* the comment delimiters of a text from a position on, read left to right
\* without overlap: each is an opener or a closer and the position behind it
RECURSIVE Delimiters(_, _)
Delimiters(input, i) ==
    IF i + 1 > Len(input) THEN <<>>
    ELSE IF input[i] = "/" /\ input[i + 1] = "*"
    THEN <<[opener |-> TRUE, behind |-> i + 2]>> \o Delimiters(input, i + 2)
    ELSE IF input[i] = "*" /\ input[i + 1] = "/"
    THEN <<[opener |-> FALSE, behind |-> i + 2]>> \o Delimiters(input, i + 2)
    ELSE Delimiters(input, i + 1)

\* openers seen up to the n-th delimiter behind an opening /*, that one
\* included, and closers seen
Openers(ds, n) == 1 + Cardinality({j \in 1..n : ds[j].opener})
Closers(ds, n) == Cardinality({j \in 1..n : ~ds[j].opener})

\* the delimiters at which the closers have caught up with the openers
Balanced(ds) == {n \in 1..Len(ds) : Closers(ds, n) = Openers(ds, n)}

\* the call began (behind whitespace) at an opening /*
AtComment(lx) ==
    /\ lx.start >= 1
    /\ current_char(lx.input, skip_whitespace(lx.input, lx.start)) = "/"
    /\ current_char(lx.input, skip_whitespace(lx.input, lx.start) + 1) = "*"

CommentBody(lx) == Delimiters(lx.input, skip_whitespace(lx.input, lx.start) + 2)

\* C25: block comments nest.  A next_token that begins at an opening /*
\* skips to the first closer at which the closers equal the openers and
\* answers what next_token answers from right behind that closer; when the
\* input ends before that, it answers a Lexer error.
C25_BlockCommentsNest ==
    AtComment(lexer)
        => IF Balanced(CommentBody(lexer)) = {}
           THEN lexer.tok = LexError("Unterminated multi-line comment")
           ELSE LET n == CHOOSE m \in Balanced(CommentBody(lexer)) :
                             \A o \in Balanced(CommentBody(lexer)) : m <= o
                IN  Lexed(lexer.position, lexer.tok)
                        = next_token(lexer.input, CommentBody(lexer)[n].behind)

\* a comment with a comment nested in it has been skipped and the token
\* behind it returned
C25_Witness ==
    /\ AtComment(lexer)
    /\ Balanced(CommentBody(lexer)) # {}
    /\ CommentBody(lexer)[1].opener
    /\ lexer.tok.k = "Identifier"

(***************************************************************************)
(* The Repl machine: Repl::new, then process_declaration on programs of at *)
(* most MaxDeclarations declarations and process_expression on top-level   *)
(* expressions, in any order.                                              *)
(***************************************************************************)
\* the outcome of a check: the Result, and the checker's state after it
Checked(res, values, tenv, locals) ==
    [res |-> res, values |-> values, env |-> tenv, locals |-> locals]

\* typechecker.rs check_value_declaration, behind locals.clear() and the
\* insert of the parameter: validate, normalize, define_value
check_value_body(values, tenv, decl, locals, validate_type, normalize_type) ==
    IF decl.body.validate.k # "None" /\ IsTypeErr(validate_type)
    THEN Checked(validate_type, values, tenv, locals)
    ELSE IF decl.body.validate.k # "None" /\ validate_type # TBool
    THEN Checked(TypeErr("Validation expression must return Bool"),
                 values, tenv, locals)
    ELSE IF decl.body.normalize.k # "None" /\ IsTypeErr(normalize_type)
    THEN Checked(normalize_type, values, tenv, locals)
    ELSE IF decl.body.normalize.k # "None" /\ normalize_type # decl.parameter.ty
    THEN Checked(TypeErr("Normalization expression must return the parameter type"),
                 values, tenv, locals)
    ELSE Checked(TBool, values \cup {decl.name}, tenv, locals)

\* typechecker.rs check_value_declaration (TBool stands for Ok)
check_value_declaration(values, tenv, locals, decl) ==
    IF decl.name \in values
    THEN Checked(TypeErr("Value type is already defined"), values, tenv, locals)
    ELSE check_value_body(
             values, tenv, decl, Bind(decl.parameter.name, decl.parameter.ty),
             IF decl.body.validate.k = "None" THEN TBool
             ELSE check_expression(decl.body.validate,
                                   Bind(decl.parameter.name, decl.parameter.ty)),
             IF decl.body.normalize.k = "None" THEN TBool
             ELSE check_expression(decl.body.normalize,
                                   Bind(decl.parameter.name, decl.parameter.ty)))

\* typechecker.rs check_declaration; check_function_declaration clears the
\* locals and inserts the parameters before it checks anything
check_declaration(values, tenv, locals, item) ==
    IF item.kind = "value"
    THEN check_value_declaration(values, tenv, locals, ValueDecl(item.name))
    ELSE Checked(check_function_declaration(tenv, FunctionDecl(item.id)).res,
                 values,
                 check_function_declaration(tenv, FunctionDecl(item.id)).env,
                 ParamLocals(FunctionDecl(item.id)))

\* typechecker.rs check_program: the declarations in order, stopping at the
\* first error with what the earlier declarations have defined
RECURSIVE check_program_from(_, _, _)
check_program_from(state, program, i) ==
    IF i > Len(program) \/ IsTypeErr(state.res) THEN state
    ELSE check_program_from(
             check_declaration(state.values, state.env, state.locals, program[i]),
             program, i + 1)

check_program(values, tenv, locals, program) ==
    check_program_from(Checked(TBool, values, tenv, locals), program, 1)

\* compiler.rs compile_program: ValueRegistry::register for a value
\* declaration, register_function for a function declaration; neither fails
RECURSIVE compile_constructors(_, _, _)
compile_constructors(ctors, program, i) ==
    IF i > Len(program) THEN ctors
    ELSE compile_constructors(
             IF program[i].kind = "value" THEN ctors \cup {program[i].name}
             ELSE ctors,
             program, i + 1)

RECURSIVE compile_functions(_, _, _)
compile_functions(fns, program, i) ==
    IF i > Len(program) THEN fns
    ELSE compile_functions(
             IF program[i].kind = "fn" THEN register_function(fns, program[i].id)
             ELSE fns,
             program, i + 1)

ReplInit ==
    /\ constructors = {}
    /\ instances = [nm \in TypeNames |-> <<>>]
    /\ result = NoResult
    /\ okCount = [nm \in TypeNames |-> 0]
    /\ functions = [nm \in FunctionNames |-> <<>>]
    /\ cache = EmptyCache
    /\ dres = NoCall
    /\ env = EmptyEnv
    /\ declared = NoDeclaration
    /\ threads = [t \in Threads |-> Idle]
    /\ lock = Unlocked
    /\ acquired = [nm \in TypeNames |-> <<>>]
    /\ lastRead = [nm \in TypeNames |-> <<>>]
    /\ build \in Builds
    /\ evres = NoEvaluation
    /\ parsed = NoParse
    /\ registries = NoRegistries
    /\ opt = NoOptimized
    /\ specializations = EmptySpecializations
    /\ pexpr = NoExpressionParse
    /\ emails = [slot \in EmailSlots |-> NoEmail]
    /\ lexer = NoLexer
    /\ repl = NoRepl

MaxDeclarations == 2

\* value C(n: Int) { validate: n > 0 }, value B(flag: Bool) { validate: flag },
\* fn f(x: Int) -> Int { 2 } and fn f(x: Bool) -> Int { x }, whose body has
\* the wrong type
Items == {ValueItem("C"), ValueItem("B"), FunctionItem(2), FunctionItem(6)}

RECURSIVE Programs(_)
Programs(count) ==
    IF count = 0 THEN {<<>>}
    ELSE LET shorter == Programs(count - 1)
         IN  shorter \cup {program \o <<item>> : program \in shorter, item \in Items}

FunctionItems(program) == {i \in 1..Len(program) : program[i].kind = "fn"}

\* the expressions typed at the prompt
TopLevelExpressions ==
    {Identifier("x"), Identifier("n"), Identifier("C"), LitI(1),
     Binary("Add", Identifier("x"), LitI(1))}

\* what process_declaration leaves behind, given the outcome of check_program
declaration_processed(program, checked) ==
    /\ repl' = [values |-> checked.values, locals |-> checked.locals,
                last |-> [NoInput EXCEPT !.op = "declaration",
                                         !.program = program,
                                         !.ty = checked.res]]
    /\ env' = checked.env
    /\ IF IsTypeErr(checked.res)
       THEN UNCHANGED <<constructors, functions>>
       ELSE /\ constructors' = compile_constructors(constructors, program, 1)
            /\ functions' = compile_functions(functions, program, 1)

\* main.rs Repl::process_declaration: check_program, and when it succeeds
\* compile_program
ProcessDeclaration(program) ==
    /\ \A name \in FunctionNames :
          Len(env[name]) + Cardinality(FunctionItems(program)) <= MaxOverloads
    /\ declaration_processed(program,
                             check_program(repl.values, env, repl.locals, program))
    /\ UNCHANGED <<build, registries, opt, specializations, lexer, emails, pexpr, parsed, evres, registryVars, cache, dres,
                   declared, threadVars>>

\* main.rs Repl::process_expression: check_expression on the checker as it
\* is, and when it succeeds evaluate_expression with an empty context
ProcessExpression(expr) ==
    /\ repl' = [repl EXCEPT
                   !.last = [NoInput EXCEPT
                                !.op = "expression",
                                !.expr = expr,
                                !.ty = check_expression(expr, repl.locals),
                                !.res = IF IsTypeErr(check_expression(expr, repl.locals))
                                        THEN Blank
                                        ELSE evaluate_expression(expr, EmptyContext,
                                                                 constructors)]]
    /\ UNCHANGED <<constructors, build, registries, opt, specializations, lexer, emails, pexpr, parsed, evres, registryVars,
                   dispatchVars, checkerVars, threadVars>>

ReplNext ==
    \/ \E program \in Programs(MaxDeclarations) \ {<<>>} : ProcessDeclaration(program)
    \/ \E expr \in TopLevelExpressions : ProcessExpression(expr)

ReplSpec == ReplInit /\ [][ReplNext]_vars

\* C26: the locals a top-level expression is checked against are the
\* bindings of that expression, none: no parameter of an earlier declaration
\* is visible, and an expression the checker accepts never fails in the
\* evaluator with "Unknown identifier".
C26_LocalsAreTheExpressionsOwn ==
    repl.last.op = "expression"
        => /\ repl.locals = NoLocals
           /\ ~IsTypeErr(repl.last.ty)
                  => repl.last.res # ErrV("Unknown identifier", "")

\* C30: the type environment and the registry describe the same program: a
\* value type is defined in the environment iff the registry has its
\* constructor, and each function name has as many function types as
\* registered overloads.
C30_EnvironmentMatchesRegistry ==
    /\ repl.values = constructors
    /\ \A name \in FunctionNames : Len(env[name]) = Len(functions[name])

(***************************************************************************)
(* specialization.rs and optimized_evaluator.rs: the specialization pass   *)
(* and the optimized evaluator.  A key of the SpecializationCache is       *)
(* <<function name, argument types>>.  The expressions evaluated are calls *)
(* whose arguments are literals or value constructor calls, and the bodies *)
(* of the model's functions hold no calls, so the Binary and Let arms of   *)
(* the optimized evaluator (which repeat the plain evaluator's) are not    *)
(* entered.                                                                *)
(***************************************************************************)
\* specialization.rs types_compatible
types_compatible(param_type, arg_type) ==
    CASE param_type.k = "Any" -> TRUE
      [] param_type.k = "Int" /\ arg_type.k = "Int" -> TRUE
      [] param_type.k = "String" /\ arg_type.k = "String" -> TRUE
      [] param_type.k = "Bool" /\ arg_type.k = "Bool" -> TRUE
      [] param_type.k = "Value" /\ arg_type.k = "Value" ->
            param_type.name = arg_type.name
      [] arg_type.k = "Unknown" -> TRUE
      [] param_type.k = "Unknown" -> TRUE
      [] OTHER -> FALSE

\* specialization.rs type_specificity
type_specificity(ty) ==
    CASE ty.k \in {"Int", "String", "Bool", "Value", "Type", "List"} -> 3
      [] ty.k = "Any" -> 1
      [] ty.k = "Unknown" -> 0

\* specialization.rs try_specialize: the specificity of a compatible
\* function, a guard adding one
RECURSIVE static_specificity(_, _)
static_specificity(func, i) ==
    IF i > Len(func.parameters) THEN 0
    ELSE type_specificity(func.parameters[i].ty)
            + (IF func.parameters[i].guard.k # "None" THEN 1 ELSE 0)
            + static_specificity(func, i + 1)

\* specialization.rs try_specialize: the candidates, by index (from 0)
static_candidates(funcs, arg_types) ==
    {idx \in 0..(Len(funcs) - 1) :
        /\ Len(FunctionDecl(funcs[idx + 1]).parameters) = Len(arg_types)
        /\ \A i \in 1..Len(arg_types) :
              types_compatible(FunctionDecl(funcs[idx + 1]).parameters[i].ty,
                               arg_types[i])}

\* the candidates no other candidate beats
static_best(funcs, cands) ==
    {idx \in cands :
        \A other \in cands :
            static_specificity(FunctionDecl(funcs[other + 1]), 1)
                <= static_specificity(FunctionDecl(funcs[idx + 1]), 1)}

\* specialization.rs try_specialize, as the cache it leaves: a key already
\* cached stays; a single implementation is cached as index 0 whatever the
\* types; otherwise the one most specific candidate is cached, and nothing
\* when there is no candidate or the two best tie
try_specialize(sc, name, arg_types, fns) ==
    IF <<name, arg_types>> \in DOMAIN sc THEN sc
    ELSE IF name \notin DOMAIN fns \/ fns[name] = <<>> THEN sc
    ELSE IF Len(fns[name]) = 1 THEN CacheInsert(sc, <<name, arg_types>>, 0)
    ELSE IF Cardinality(static_best(fns[name],
                                    static_candidates(fns[name], arg_types))) # 1
    THEN sc
    ELSE CacheInsert(sc, <<name, arg_types>>,
                     CHOOSE idx \in static_best(fns[name],
                                                static_candidates(fns[name], arg_types)) :
                         TRUE)

\* specialization.rs infer_expression_type, with the empty type environment
\* evaluate_expression_with_optimization passes
infer_expression_type(expr) ==
    CASE expr.k = "Literal" /\ expr.v.t = "Integer" -> TInt
      [] expr.k = "Literal" /\ expr.v.t = "String" -> TString
      [] expr.k = "Literal" /\ expr.v.t = "Boolean" -> TBool
      [] expr.k = "Binary" -> IF expr.op \in {"And", "Or"} THEN TBool ELSE TInt
      [] expr.k = "Unary" -> IF expr.op = "Not" THEN TBool ELSE TInt
      [] expr.k = "Comparison" -> TBool
      [] expr.k = "TypeLiteral" -> TType
      [] OTHER -> TUnknown

\* specialization.rs specialize_function_calls on a call: the arguments
\* first, then the call itself when every argument type is known
RECURSIVE specialize_function_calls(_, _, _)
RECURSIVE specialize_arguments(_, _, _, _)
specialize_arguments(args, i, sc, fns) ==
    IF i > Len(args) THEN sc
    ELSE specialize_arguments(args, i + 1,
                              specialize_function_calls(args[i], sc, fns), fns)

specialize_call(expr, arg_types, sc, fns) ==
    IF \A i \in 1..Len(arg_types) : arg_types[i] # TUnknown
    THEN try_specialize(sc, expr.name, arg_types, fns)
    ELSE sc

specialize_function_calls(expr, sc, fns) ==
    IF expr.k = "FunctionCall"
    THEN specialize_call(expr,
                         [i \in 1..Len(expr.args) |-> infer_expression_type(expr.args[i])],
                         specialize_arguments(expr.args, 1, sc, fns), fns)
    ELSE sc

\* optimized_evaluator.rs type_from_value
type_from_value(value) ==
    CASE value.t = "Integer" -> TInt
      [] value.t = "String" -> TString
      [] value.t = "Boolean" -> TBool
      [] value.t = "Value" -> TValue(value.ty)
      [] value.t = "Type" -> TType
      [] value.t = "List" -> TList

\* the names of the model that begin with an uppercase letter
UppercaseNames == TypeNames \cup {"Int"}

\* optimized_evaluator.rs infer_runtime_type, with the empty type
\* environment
infer_runtime_type(expr, context) ==
    CASE expr.k = "Literal" /\ expr.v.t = "Integer" -> TInt
      [] expr.k = "Literal" /\ expr.v.t = "String" -> TString
      [] expr.k = "Literal" /\ expr.v.t = "Boolean" -> TBool
      [] expr.k = "Identifier" ->
            IF expr.name \in DOMAIN context THEN type_from_value(context[expr.name])
            ELSE TUnknown
      [] expr.k = "FunctionCall" /\ expr.name \in UppercaseNames -> TValue(expr.name)
      [] OTHER -> TUnknown

\* optimized_evaluator.rs evaluate_expression_optimized
RECURSIVE evaluate_expression_optimized(_, _, _, _, _, _, _)
RECURSIVE optimized_arguments(_, _, _, _, _, _, _)
optimized_arguments(args, i, context, fns, sc, ctors, acc) ==
    IF i > Len(args) \/ Aborts(acc.res) THEN acc
    ELSE optimized_arguments(
             args, i + 1, context, fns, sc, ctors,
             next_argument(acc,
                           evaluate_expression_optimized(
                               args[i], context, fns, acc.cache, sc, ctors,
                               acc.instances)))

\* the call behind its arguments: the specialized function when the cache
\* has one for the argument types and the registry has a function at that
\* index, its parameters zipped with the argument values; otherwise the
\* plain evaluator on the call expression
optimized_call(expr, key, acc, context, fns, sc, ctors) ==
    IF Aborts(acc.res) THEN CallResult(acc.res, acc.cache, acc.instances)
    ELSE IF /\ key \in DOMAIN sc
            /\ expr.name \in DOMAIN fns
            /\ sc[key] < Len(fns[expr.name])
    THEN CallResult(RunBody(fns[expr.name], sc[key], acc.values, ctors),
                    acc.cache, acc.instances)
    ELSE eval_nested_call(expr.name, expr.args, context, fns, acc.cache, ctors,
                          acc.instances)

evaluate_expression_optimized(expr, context, fns, c, sc, ctors, insts) ==
    IF expr.k = "FunctionCall"
    THEN optimized_call(
             expr,
             <<expr.name,
               [i \in 1..Len(expr.args) |-> infer_runtime_type(expr.args[i], context)]>>,
             optimized_arguments(expr.args, 1, context, fns, sc, ctors,
                                 Arguments(<<>>, Blank, c, insts)),
             context, fns, sc, ctors)
    ELSE CallResult(evaluate_expression(expr, context, ctors), c, insts)

(***************************************************************************)
(* The optimized-evaluation machine: a Compiler whose registry holds the   *)
(* value declarations and one of three overload sets of f,                 *)
(*   f(x: Int where x > 0) { 1 }, f(x: Int) { 2 }, f(x: Any) { 0 };        *)
(*   f(x: Any) { 0 } alone;                                                *)
(*   f(x: Int) { 2 }, f(x: Any) { 0 }, f(x: Int, y: Any) { 5 },            *)
(* and evaluate_expression_with_optimization on one call after another.    *)
(***************************************************************************)
OptOverloadSets == {<<1, 2, 3>>, <<3>>, <<2, 3, 4>>}

OptInit ==
    /\ constructors = ValueNames
    /\ instances = [nm \in TypeNames |-> <<>>]
    /\ result = NoResult
    /\ okCount = [nm \in TypeNames |-> 0]
    /\ functions \in {[nm \in FunctionNames |-> set] : set \in OptOverloadSets}
    /\ cache = EmptyCache
    /\ dres = NoCall
    /\ env = EmptyEnv
    /\ declared = NoDeclaration
    /\ threads = [t \in Threads |-> Idle]
    /\ lock = Unlocked
    /\ acquired = [nm \in TypeNames |-> <<>>]
    /\ lastRead = [nm \in TypeNames |-> <<>>]
    /\ build \in Builds
    /\ evres = NoEvaluation
    /\ parsed = NoParse
    /\ registries = NoRegistries
    /\ pexpr = NoExpressionParse
    /\ emails = [slot \in EmailSlots |-> NoEmail]
    /\ lexer = NoLexer
    /\ repl = NoRepl
    /\ specializations = EmptySpecializations
    /\ opt = NoOptimized

\* the calls evaluated: f on an integer the guard accepts and one it
\* rejects, on a boolean, on two arguments, and on a value constructed in
\* the argument (C accepts 5 and rejects 0)
OptExpressions ==
    {FunctionCall("f", <<LitI(5)>>), FunctionCall("f", <<LitI(-1)>>),
     FunctionCall("f", <<LitB(TRUE)>>), FunctionCall("f", <<LitI(1), LitI(2)>>),
     FunctionCall("f", <<FunctionCall("C", <<LitI(5)>>)>>),
     FunctionCall("f", <<FunctionCall("C", <<LitI(0)>>)>>),
     FunctionCall("C", <<LitI(5)>>)}

optimized_evaluated(expr, r, plain) ==
    /\ opt' = [expr |-> expr, res |-> r.res, plain |-> plain.res,
               before |-> instances, plain_instances |-> plain.instances]
    /\ cache' = r.cache
    /\ instances' = r.instances

\* compiler.rs evaluate_expression_with_optimization: the specialization
\* pass, then the optimized evaluator with the cache the pass left.  The
\* plain evaluator's answer from the same registry and dispatch cache is
\* recorded next to it.
EvaluateOptimized(expr) ==
    /\ TotalInstances(instances) < MaxInstances
    /\ specializations' = specialize_function_calls(expr, specializations, functions)
    /\ optimized_evaluated(
           expr,
           evaluate_expression_optimized(
               expr, EmptyContext, functions, cache,
               specialize_function_calls(expr, specializations, functions),
               constructors, instances),
           eval_nested_call(expr.name, expr.args, EmptyContext, functions, cache,
                            constructors, instances))
    /\ UNCHANGED <<constructors, build, registries, repl, lexer, emails, pexpr, parsed, evres, result, okCount,
                   functions, dres, checkerVars, threadVars>>

OptNext == \E expr \in OptExpressions : EvaluateOptimized(expr)

OptSpec == OptInit /\ [][OptNext]_vars

\* C27: the optimized evaluator returns what the plain evaluator returns
\* for the same expression, registry and dispatch cache: a cached
\* specialization runs the overload runtime dispatch would choose.
C27_OptimizedAgreesWithPlain ==
    opt.expr # NoExpr => opt.res = opt.plain

\* C28: the optimized evaluator runs each value-constructor call of the
\* expression once, also when it falls back to dynamic dispatch: it leaves
\* the instance lists the plain evaluator leaves.
C28_ConstructorsRunOnce ==
    opt.expr # NoExpr => instances = opt.plain_instances

(***************************************************************************)
(* The process machine: two ValueRegistry objects in one process, each     *)
(* holding overloads of f, and calls dispatched against either.  The       *)
(* DISPATCH_CACHE is a lazy_static, one for the process: the variable      *)
(* cache.  Beside it the machine keeps, for each registry, the cache that  *)
(* the calls against that registry alone would have built.                 *)
(***************************************************************************)
RegistryIds == {1, 2}

\* f(x: Int) { 2 } before f(x: Any) { 0 }, the same two declared in the
\* other order, and the guarded f(x: Int where x > 0) { 1 } before both
RegistryOverloads == {<<2, 3>>, <<3, 2>>, <<1, 2, 3>>}

ProcessInit ==
    /\ constructors = ValueNames
    /\ instances = [nm \in TypeNames |-> <<>>]
    /\ result = NoResult
    /\ okCount = [nm \in TypeNames |-> 0]
    /\ functions = [nm \in FunctionNames |-> <<>>]
    /\ cache = EmptyCache
    /\ dres = NoCall
    /\ env = EmptyEnv
    /\ declared = NoDeclaration
    /\ threads = [t \in Threads |-> Idle]
    /\ lock = Unlocked
    /\ acquired = [nm \in TypeNames |-> <<>>]
    /\ lastRead = [nm \in TypeNames |-> <<>>]
    /\ build \in Builds
    /\ evres = NoEvaluation
    /\ parsed = NoParse
    /\ pexpr = NoExpressionParse
    /\ emails = [slot \in EmailSlots |-> NoEmail]
    /\ lexer = NoLexer
    /\ repl = NoRepl
    /\ specializations = EmptySpecializations
    /\ opt = NoOptimized
    /\ registries \in
          {[fns |-> [id \in RegistryIds |->
                        [nm \in FunctionNames |-> IF id = 1 THEN first ELSE second]],
            own |-> [id \in RegistryIds |-> EmptyCache],
            last |-> [registry |-> 0]] :
              first \in RegistryOverloads, second \in RegistryOverloads}

\* what a call leaves behind, given its outcome with the process-wide cache
\* and its outcome with the cache of the registry's own calls
dispatched(id, arg_values, called, alone) ==
    /\ cache' = called.cache
    /\ registries' =
          [registries EXCEPT
              !.own[id] = alone.cache,
              !.last = [registry |-> id, args |-> arg_values,
                        res |-> called.res, index |-> called.index,
                        alone |-> alone.res, alone_index |-> alone.index]]

\* evaluate_expression on f(args) against registry id
CallIn(id, arg_values) ==
    /\ dispatched(id, arg_values,
                  call_function("f", registries.fns[id], arg_values, cache,
                                constructors),
                  call_function("f", registries.fns[id], arg_values,
                                registries.own[id], constructors))
    /\ UNCHANGED <<constructors, build, opt, specializations, repl, lexer, emails, pexpr, parsed, evres,
                   registryVars, functions, dres, checkerVars, threadVars>>

ProcessNext == \E id \in RegistryIds, arg_values \in ArgVectors : CallIn(id, arg_values)

ProcessSpec == ProcessInit /\ [][ProcessNext]_vars

\* C29: the overload a call runs against one registry does not depend on
\* the calls dispatched earlier against another registry of the process: it
\* is the overload the call runs when only the registry's own calls have
\* filled the cache.
C29_RegistriesDoNotInterfere ==
    registries.last.registry # 0
        => /\ registries.last.index = registries.last.alone_index
           /\ registries.last.res = registries.last.alone

====
